---- MODULE Spec2Model ----
(***************************************************************************)
(* Verification model of the lead resolution and caching engine:           *)
(*   cache_manager.py     CacheManager (normalize_phone, save_cache,       *)
(*                        get_cached_lookup, store_lookup, ...)            *)
(*   lead_processor_v2.py LeadProcessor (clean_phone, phone_lookup,        *)
(*                        address_lookup, process_row, ...)                *)
(*   dialer_gui.py        DialerGUI (load_person, perform_lookups,         *)
(*                        preload_person_data, extract_people_from_data,   *)
(*                        process_lookup_data, accumulate_*_results)       *)
(*                                                                         *)
(* Python values are modelled as uniformly shaped nodes, strings that the  *)
(* code inspects character by character (phone numbers) as sequences of    *)
(* one-character strings.                                                  *)
(***************************************************************************)
EXTENDS Integers, Sequences, FiniteSets, TLC

VARIABLES
    \* ---- CacheManager (one shared instance) and the file system
    cache_data,        \* self.cache_data: [lookups, last_updated]
    stats,             \* [cache_hits, cache_misses, api_calls_saved]
    clock,             \* the time _get_timestamp() reads; a call takes a tick
    fs,                \* [canon, tmp: inode id or 0, inodes: id -> content]
    \* ---- threads running CacheManager / resolve code
    pc,                \* thread -> position
    frame,             \* thread -> local variables of the running call
    \* ---- observation of completed calls (history)
    hist,              \* sequence of completed calls, most recent last
    \* ---- DialerGUI
    gui,               \* [current_person_idx, current_results, ai_results]
    \* ---- collaborators (history of the requests made)
    net,               \* [phone_calls, address_calls: phone -> count]
    \* ---- result accumulation (merge passes on one contact)
    merged             \* person records merged into gui.current_results so far

vars == <<cache_data, stats, clock, fs, pc, frame, hist, gui, net, merged>>

-----------------------------------------------------------------------------
(***************************************************************************)
(* Bounds of the model.                                                    *)
(***************************************************************************)
MaxPasses == 3
MaxClock == 3
MaxHist == 2
MaxWorkers == 3
MaxLoads == 3
MaxClears == 1
MaxResolves == 2
MaxHouseDigits == 5
MaxTokens == 3
MaxAreaDigits == 3
MaxLineDigits == 8
MaxEntries == 2
MaxLookups == 2
MaxManual == 2

-----------------------------------------------------------------------------
(***************************************************************************)
(* Python values.  Every value is a node [k, t, s, items]: k is the key    *)
(* under which the value sits in its parent dict ("" otherwise), t its     *)
(* type, s the text of a string (or "True"/"False" of a bool), items the   *)
(* members of a dict (keyed nodes, insertion ordered), list or tuple.      *)
(***************************************************************************)
Node(k, t, s, items) == [k |-> k, t |-> t, s |-> s, items |-> items]
PyNone == Node("", "none", "", <<>>)
Str(s) == Node("", "str", s, <<>>)
Bool(b) == Node("", "bool", IF b THEN "True" ELSE "False", <<>>)
Dict(items) == Node("", "map", "", items)
List(items) == Node("", "list", "", items)
Tuple(items) == Node("", "tuple", "", items)
At(k, n) == [n EXCEPT !.k = k]
EmptyDict == Dict(<<>>)

Range(f) == {f[i] : i \in DOMAIN f}

\* Python truth value: None, "", False, {}, [] and () are falsy.
Truthy(n) ==
    CASE n.t = "none" -> FALSE
      [] n.t = "str" -> n.s # ""
      [] n.t = "bool" -> n.s = "True"
      [] OTHER -> n.items # <<>>

IsDict(n) == n.t = "map"
IsList(n) == n.t = "list"
IsStr(n) == n.t = "str"

\* `k in d` for a dict; for a tuple or list it is membership of the string k.
HasKey(d, k) ==
    IF IsDict(d) THEN \E i \in DOMAIN d.items : d.items[i].k = k
    ELSE \E i \in DOMAIN d.items : d.items[i].t = "str" /\ d.items[i].s = k

\* d.get(k): the value under k, None when absent.
DictGet(d, k) ==
    IF IsDict(d) /\ HasKey(d, k)
    THEN LET i == CHOOSE j \in DOMAIN d.items : d.items[j].k = k
         IN  At("", d.items[i])
    ELSE PyNone

\* the text of a value used where the code expects a string ("" if falsy)
Text(n) == IF n.t \in {"str", "bool"} /\ Truthy(n) THEN n.s ELSE ""

\* json.dump followed by json.load: a tuple comes back as a list.
RECURSIVE ToJson(_)
ToJson(n) ==
    [n EXCEPT !.t = IF @ = "tuple" THEN "list" ELSE @,
              !.items = IF n.items = <<>> THEN <<>>
                        ELSE [i \in 1..Len(n.items) |-> ToJson(n.items[i])]]

-----------------------------------------------------------------------------
(***************************************************************************)
(* Phone strings: sequences of one-character strings.                      *)
(***************************************************************************)
Digits == {"0", "1", "2", "3", "4", "5", "6", "7", "8", "9"}

\* re.sub(r'[^\d+]', '', s)
RECURSIVE StripNonPhone(_)
StripNonPhone(s) ==
    IF s = <<>> THEN <<>>
    ELSE IF Head(s) \in Digits \cup {"+"}
         THEN <<Head(s)>> \o StripNonPhone(Tail(s))
         ELSE StripNonPhone(Tail(s))

StartsWith(s, c) == s # <<>> /\ Head(s) = c

\* a mutant of E164Prefix: a '+' is put in front of whatever is left
E164Prefix_Always(phone_clean) == <<"+">> \o phone_clean

\* normalize_phone's "ensure E.164 format" branches
E164Prefix(phone_clean) ==
    IF ~StartsWith(phone_clean, "+")
    THEN IF StartsWith(phone_clean, "1") /\ Len(phone_clean) = 11
         THEN <<"+">> \o phone_clean
         ELSE IF Len(phone_clean) = 10
              THEN <<"+", "1">> \o phone_clean
              ELSE IF Len(phone_clean) = 11
                   THEN <<"+">> \o phone_clean
                   ELSE phone_clean
    ELSE phone_clean

\* CacheManager.normalize_phone
normalize_phone(phone) ==
    IF phone = <<>> THEN <<>> ELSE E164Prefix(StripNonPhone(phone))

\* str.strip() for the blank characters the inputs use
RECURSIVE LStrip(_)
LStrip(s) == IF s # <<>> /\ Head(s) = " " THEN LStrip(Tail(s)) ELSE s
RECURSIVE RStrip(_)
RStrip(s) ==
    IF s # <<>> /\ s[Len(s)] = " " THEN RStrip(SubSeq(s, 1, Len(s) - 1)) ELSE s
Strip(s) == RStrip(LStrip(s))

\* LeadProcessor.clean_phone
clean_phone(phone) ==
    LET phone_clean == StripNonPhone(Strip(phone))
    IN  IF ~StartsWith(phone_clean, "+")
        THEN IF StartsWith(phone_clean, "1") /\ Len(phone_clean) = 11
             THEN <<"+">> \o phone_clean
             ELSE IF Len(phone_clean) = 10
                  THEN <<"+", "1">> \o phone_clean
                  ELSE IF Len(phone_clean) = 11 /\ ~StartsWith(phone_clean, "1")
                       THEN <<"+">> \o phone_clean
                       ELSE phone_clean
        ELSE phone_clean

-----------------------------------------------------------------------------
(***************************************************************************)
(* AddressParser: LeadProcessor.parse_address.  Text is a sequence of      *)
(* one-character strings; the blank character of the inputs is the space.  *)
(***************************************************************************)
UpperCase == <<"A", "B", "C", "D", "E", "F", "G", "H", "I", "J", "K", "L", "M", "N", "O", "P", "Q", "R", "S", "T", "U", "V", "W", "X", "Y", "Z">>
LowerCase == <<"a", "b", "c", "d", "e", "f", "g", "h", "i", "j", "k", "l", "m", "n", "o", "p", "q", "r", "s", "t", "u", "v", "w", "x", "y", "z">>

IsUpper(c) == \E i \in DOMAIN UpperCase : UpperCase[i] = c
LowerChar(c) ==
    IF IsUpper(c) THEN LowerCase[CHOOSE i \in DOMAIN UpperCase : UpperCase[i] = c]
    ELSE c
\* str.lower()
Lower(s) == [i \in 1..Len(s) |-> LowerChar(s[i])]

\* \w of the regular expressions
IsWordChar(c) == c \in Digits \/ c = "_" \/ IsUpper(c) \/ c \in Range(LowerCase)

\* \b between s[i] and s[i + 1] (i = 0: at the start, i = Len(s): at the end)
Boundary(s, i) ==
    (i >= 1 /\ i <= Len(s) /\ IsWordChar(s[i]))
        # (i + 1 >= 1 /\ i + 1 <= Len(s) /\ IsWordChar(s[i + 1]))

EndsWith(s, w) ==
    Len(w) <= Len(s) /\ SubSeq(s, Len(s) - Len(w) + 1, Len(s)) = w

\* str.rstrip(chars) and str.lstrip(chars)
RECURSIVE RStripChars(_, _)
RStripChars(s, chars) ==
    IF s # <<>> /\ s[Len(s)] \in chars
    THEN RStripChars(SubSeq(s, 1, Len(s) - 1), chars) ELSE s
RECURSIVE LStripChars(_, _)
LStripChars(s, chars) ==
    IF s # <<>> /\ Head(s) \in chars THEN LStripChars(Tail(s), chars) ELSE s

\* the number of blanks s starts with
RECURSIVE LeadingBlanks(_)
LeadingBlanks(s) ==
    IF s # <<>> /\ Head(s) = " " THEN 1 + LeadingBlanks(Tail(s)) ELSE 0

\* the alternatives of the country pattern, as IGNORECASE compares them
CountryCodes ==
    << <<"u", "s", "a">>, <<"u", "s">>,
       <<"u", "n", "i", "t", "e", "d", " ", "s", "t", "a", "t", "e", "s">>,
       <<"u", ".", "s", ".", "a", ".">>, <<"u", ".", "s", ".">> >>

\* the start of the match of \s*,?\s*<code>$ whose code starts at k: the
\* blanks, one comma and the blanks in front of the code belong to it
CountryMatchStart(s, k) ==
    LET a == Len(RStripChars(SubSeq(s, 1, k - 1), {" "}))
        b == IF a >= 1 /\ s[a] = "," THEN a - 1 ELSE a
    IN  Len(RStripChars(SubSeq(s, 1, b), {" "})) + 1

\* re.sub(r'\s*,?\s*(USA|US|United States|U\.S\.A\.|U\.S\.)$', '', s,
\* flags=re.IGNORECASE): the leftmost match is cut off
RemoveCountry(s) ==
    LET starts == { CountryMatchStart(s, Len(s) - Len(CountryCodes[j]) + 1) :
                        j \in { x \in DOMAIN CountryCodes :
                                    EndsWith(Lower(s), CountryCodes[x]) } }
    IN  IF starts = {} THEN s
        ELSE SubSeq(s, 1, (CHOOSE i \in starts : \A j \in starts : i <= j) - 1)

\* re.sub(r'\s*,\s*', ', ', s)
RECURSIVE NormalizeCommas(_)
NormalizeCommas(s) ==
    IF s = <<>> THEN <<>>
    ELSE LET n == LeadingBlanks(s)
         IN  IF n < Len(s) /\ s[n + 1] = ","
             THEN <<",", " ">>
                  \o NormalizeCommas(LStripChars(SubSeq(s, n + 2, Len(s)), {" "}))
             ELSE <<Head(s)>> \o NormalizeCommas(Tail(s))

AllDigits(s, from, to) ==
    to <= Len(s) /\ \A i \in from..to : s[i] \in Digits

\* the length of the match of \b(\d{5}(?:-\d{4})?)\b that starts at s[i],
\* 0 if there is none
ZipAt(s, i) ==
    IF ~(Boundary(s, i - 1) /\ AllDigits(s, i, i + 4)) THEN 0
    ELSE IF i + 5 <= Len(s) /\ s[i + 5] = "-" /\ AllDigits(s, i + 6, i + 9)
            /\ Boundary(s, i + 9)
         THEN 10
         ELSE IF Boundary(s, i + 4) THEN 5 ELSE 0

\* re.search(zip_pattern, s): where the first match starts, 0 if none
ZipStart(s) ==
    IF \E i \in 1..Len(s) : ZipAt(s, i) > 0
    THEN CHOOSE i \in 1..Len(s) :
            ZipAt(s, i) > 0 /\ \A j \in 1..(i - 1) : ZipAt(s, j) = 0
    ELSE 0

\* s[:start].strip().rstrip(',')
Before(s, start) == RStripChars(Strip(SubSeq(s, 1, start - 1)), {","})

\* re.search(r'\b([A-Z]{2})\s*$', s): where the match starts, 0 if none
StateCodeStart(s) ==
    LET i == Len(RStrip(s)) - 1
    IN  IF i >= 1 /\ IsUpper(s[i]) /\ IsUpper(s[i + 1]) /\ Boundary(s, i - 1)
        THEN i ELSE 0

\* state_names, in the order of the dict
state_names ==
    << <<"a", "l", "a", "b", "a", "m", "a">>,
       <<"a", "l", "a", "s", "k", "a">>,
       <<"a", "r", "i", "z", "o", "n", "a">>,
       <<"a", "r", "k", "a", "n", "s", "a", "s">>,
       <<"c", "a", "l", "i", "f", "o", "r", "n", "i", "a">>,
       <<"c", "o", "l", "o", "r", "a", "d", "o">>,
       <<"c", "o", "n", "n", "e", "c", "t", "i", "c", "u", "t">>,
       <<"d", "e", "l", "a", "w", "a", "r", "e">>,
       <<"f", "l", "o", "r", "i", "d", "a">>,
       <<"g", "e", "o", "r", "g", "i", "a">>,
       <<"h", "a", "w", "a", "i", "i">>, <<"i", "d", "a", "h", "o">>,
       <<"i", "l", "l", "i", "n", "o", "i", "s">>,
       <<"i", "n", "d", "i", "a", "n", "a">>, <<"i", "o", "w", "a">>,
       <<"k", "a", "n", "s", "a", "s">>,
       <<"k", "e", "n", "t", "u", "c", "k", "y">>,
       <<"l", "o", "u", "i", "s", "i", "a", "n", "a">>,
       <<"m", "a", "i", "n", "e">>,
       <<"m", "a", "r", "y", "l", "a", "n", "d">>,
       <<"m", "a", "s", "s", "a", "c", "h", "u", "s", "e", "t", "t", "s">>,
       <<"m", "i", "c", "h", "i", "g", "a", "n">>,
       <<"m", "i", "n", "n", "e", "s", "o", "t", "a">>,
       <<"m", "i", "s", "s", "i", "s", "s", "i", "p", "p", "i">>,
       <<"m", "i", "s", "s", "o", "u", "r", "i">>,
       <<"m", "o", "n", "t", "a", "n", "a">>,
       <<"n", "e", "b", "r", "a", "s", "k", "a">>,
       <<"n", "e", "v", "a", "d", "a">>,
       <<"n", "e", "w", " ", "h", "a", "m", "p", "s", "h", "i", "r", "e">>,
       <<"n", "e", "w", " ", "j", "e", "r", "s", "e", "y">>,
       <<"n", "e", "w", " ", "m", "e", "x", "i", "c", "o">>,
       <<"n", "e", "w", " ", "y", "o", "r", "k">>,
       <<"n", "o", "r", "t", "h", " ", "c", "a", "r", "o", "l", "i", "n", "a">>,
       <<"n", "o", "r", "t", "h", " ", "d", "a", "k", "o", "t", "a">>,
       <<"o", "h", "i", "o">>, <<"o", "k", "l", "a", "h", "o", "m", "a">>,
       <<"o", "r", "e", "g", "o", "n">>,
       <<"p", "e", "n", "n", "s", "y", "l", "v", "a", "n", "i", "a">>,
       <<"r", "h", "o", "d", "e", " ", "i", "s", "l", "a", "n", "d">>,
       <<"s", "o", "u", "t", "h", " ", "c", "a", "r", "o", "l", "i", "n", "a">>,
       <<"s", "o", "u", "t", "h", " ", "d", "a", "k", "o", "t", "a">>,
       <<"t", "e", "n", "n", "e", "s", "s", "e", "e">>,
       <<"t", "e", "x", "a", "s">>, <<"u", "t", "a", "h">>,
       <<"v", "e", "r", "m", "o", "n", "t">>,
       <<"v", "i", "r", "g", "i", "n", "i", "a">>,
       <<"w", "a", "s", "h", "i", "n", "g", "t", "o", "n">>,
       <<"w", "e", "s", "t", " ", "v", "i", "r", "g", "i", "n", "i", "a">>,
       <<"w", "i", "s", "c", "o", "n", "s", "i", "n">>,
       <<"w", "y", "o", "m", "i", "n", "g">> >>
state_codes ==
    << <<"A", "L">>, <<"A", "K">>, <<"A", "Z">>, <<"A", "R">>, <<"C", "A">>,
       <<"C", "O">>, <<"C", "T">>, <<"D", "E">>, <<"F", "L">>, <<"G", "A">>,
       <<"H", "I">>, <<"I", "D">>, <<"I", "L">>, <<"I", "N">>, <<"I", "A">>,
       <<"K", "S">>, <<"K", "Y">>, <<"L", "A">>, <<"M", "E">>, <<"M", "D">>,
       <<"M", "A">>, <<"M", "I">>, <<"M", "N">>, <<"M", "S">>, <<"M", "O">>,
       <<"M", "T">>, <<"N", "E">>, <<"N", "V">>, <<"N", "H">>, <<"N", "J">>,
       <<"N", "M">>, <<"N", "Y">>, <<"N", "C">>, <<"N", "D">>, <<"O", "H">>,
       <<"O", "K">>, <<"O", "R">>, <<"P", "A">>, <<"R", "I">>, <<"S", "C">>,
       <<"S", "D">>, <<"T", "N">>, <<"T", "X">>, <<"U", "T">>, <<"V", "T">>,
       <<"V", "A">>, <<"W", "A">>, <<"W", "V">>, <<"W", "I">>, <<"W", "Y">> >>

\* re.search(r'\b' + state_name + r'\b\s*$', s, flags=re.IGNORECASE)
StateNameStart(s, state_name) ==
    LET text == RStrip(s)
        i == Len(text) - Len(state_name) + 1
    IN  IF EndsWith(Lower(text), state_name) /\ Boundary(s, i - 1)
           /\ Boundary(s, Len(text))
        THEN i ELSE 0

\* the first state name of the dict that matches, 0 if none
StateNameIndex(s) ==
    IF \E k \in DOMAIN state_names : StateNameStart(s, state_names[k]) > 0
    THEN CHOOSE k \in DOMAIN state_names :
            /\ StateNameStart(s, state_names[k]) > 0
            /\ \A j \in 1..(k - 1) : StateNameStart(s, state_names[j]) = 0
    ELSE 0

\* str.split(','), every part stripped
RECURSIVE SplitComma(_, _)
SplitComma(s, part) ==
    IF s = <<>> THEN <<Strip(part)>>
    ELSE IF Head(s) = "," THEN <<Strip(part)>> \o SplitComma(Tail(s), <<>>)
         ELSE SplitComma(Tail(s), Append(part, Head(s)))

\* str.split()
RECURSIVE SplitWords(_, _)
SplitWords(s, word) ==
    IF s = <<>> THEN (IF word = <<>> THEN <<>> ELSE <<word>>)
    ELSE IF Head(s) = " "
         THEN (IF word = <<>> THEN <<>> ELSE <<word>>) \o SplitWords(Tail(s), <<>>)
         ELSE SplitWords(Tail(s), Append(word, Head(s)))

\* sep.join(parts)
RECURSIVE Join(_, _)
Join(parts, sep) ==
    IF parts = <<>> THEN <<>>
    ELSE IF Len(parts) = 1 THEN parts[1]
         ELSE parts[1] \o sep \o Join(Tail(parts), sep)

street_suffixes ==
    << <<"s", "t", "r", "e", "e", "t">>, <<"s", "t">>,
       <<"a", "v", "e", "n", "u", "e">>, <<"a", "v", "e">>,
       <<"r", "o", "a", "d">>, <<"r", "d">>, <<"d", "r", "i", "v", "e">>,
       <<"d", "r">>, <<"l", "a", "n", "e">>, <<"l", "n">>,
       <<"c", "o", "u", "r", "t">>, <<"c", "t">>,
       <<"c", "i", "r", "c", "l", "e">>, <<"c", "i", "r">>,
       <<"b", "o", "u", "l", "e", "v", "a", "r", "d">>,
       <<"b", "l", "v", "d">>, <<"w", "a", "y">>,
       <<"p", "l", "a", "c", "e">>, <<"p", "l">>,
       <<"p", "a", "r", "k", "w", "a", "y">>, <<"p", "k", "w", "y">>,
       <<"t", "r", "a", "i", "l">>, <<"t", "e", "r", "r", "a", "c", "e">>,
       <<"t", "e", "r">>, <<"h", "i", "g", "h", "w", "a", "y">>,
       <<"h", "w", "y">>, <<"f", "r", "e", "e", "w", "a", "y">>,
       <<"e", "x", "p", "r", "e", "s", "s", "w", "a", "y">>,
       <<"l", "o", "o", "p">>, <<"p", "a", "t", "h">>,
       <<"p", "i", "k", "e">>, <<"r", "o", "w">>, <<"r", "u", "n">>,
       <<"s", "q", "u", "a", "r", "e">>, <<"s", "q">>,
       <<"a", "l", "l", "e", "y">>, <<"w", "a", "l", "k">>,
       <<"c", "r", "o", "s", "s", "i", "n", "g">> >>
secondary_designators ==
    << <<"a", "p", "a", "r", "t", "m", "e", "n", "t">>, <<"a", "p", "t">>,
       <<"s", "u", "i", "t", "e">>, <<"s", "t", "e">>,
       <<"u", "n", "i", "t">>, <<"b", "u", "i", "l", "d", "i", "n", "g">>,
       <<"b", "l", "d", "g">>, <<"f", "l", "o", "o", "r">>, <<"f", "l">>,
       <<"r", "o", "o", "m">>, <<"r", "m">>, <<"#">>,
       <<"n", "u", "m", "b", "e", "r">>, <<"n", "o">> >>

IsStreetSuffix(part) == RStripChars(Lower(part), {"."}) \in Range(street_suffixes)
IsSecondaryDesignator(part) ==
    RStripChars(Lower(part), {".", "#"}) \in Range(secondary_designators)

\* "Look for street suffix": street_end_idx, 0 for None
StreetEndIdx(parts) ==
    IF \E i \in DOMAIN parts : IsStreetSuffix(parts[i])
    THEN LET i == (CHOOSE k \in DOMAIN parts :
                        /\ IsStreetSuffix(parts[k])
                        /\ \A j \in 1..(k - 1) : ~IsStreetSuffix(parts[j])) - 1
         IN  IF i + 1 < Len(parts) /\ IsSecondaryDesignator(parts[i + 2])
             THEN (IF i + 2 < Len(parts) THEN i + 3 ELSE i + 2)
             ELSE i + 1
    ELSE 0

\* parts[0].replace('#', '').replace('-', '').isdigit()
StartsWithNumber(parts) ==
    LET rest == SelectSeq(parts[1], LAMBDA c : c \notin {"#", "-"})
    IN  rest # <<>> /\ \A i \in DOMAIN rest : rest[i] \in Digits

ParsedAddress(street, city, state, zip) ==
    [street |-> street, city |-> city, state |-> state, zip |-> zip,
     raised |-> FALSE]

\* an exception leaves parse_address
ParseRaised ==
    [street |-> <<>>, city |-> <<>>, state |-> <<>>, zip |-> <<>>, raised |-> TRUE]

\* a mutant of TooShort: short remainders are split by words like the others
TooShort_Never(parts) == FALSE

\* `if len(parts) <= 2`: too short, all of it is the street
TooShort(parts) == Len(parts) <= 2

\* parse_address, "No comma, need to parse by words"
SplitByWords(before_state, state_code, zip_code) ==
    LET parts == SplitWords(before_state, <<>>)
        n == Len(parts)
        street_end_idx == StreetEndIdx(parts)
        cut(k) == ParsedAddress(Strip(Join(SubSeq(parts, 1, k), <<" ">>)),
                                Strip(Join(SubSeq(parts, k + 1, n), <<" ">>)),
                                state_code, zip_code)
    IN  IF TooShort(parts)
        THEN ParsedAddress(before_state, <<>>, state_code, zip_code)
        ELSE IF street_end_idx > 0 /\ street_end_idx < n THEN cut(street_end_idx)
        ELSE IF street_end_idx > 0 THEN cut(n)
        ELSE IF parts = <<>> THEN ParseRaised
        ELSE IF StartsWithNumber(parts)
             THEN (IF n >= 4 THEN cut(n - 2) ELSE cut(n - 1))
             ELSE (IF n >= 4 THEN cut(n - 2) ELSE cut(n - 1))

\* parse_address, "Now split remaining into street and city"
SplitStreetCity(before_state_raw, state_code, zip_code) ==
    LET before_state == Strip(LStripChars(RStripChars(Strip(before_state_raw), {","}), {","}))
    IN  IF "," \in Range(before_state)
        THEN LET parts == SplitComma(before_state, <<>>)
             IN  ParsedAddress(Strip(Join(SubSeq(parts, 1, Len(parts) - 1), <<",", " ">>)),
                               Strip(parts[Len(parts)]), state_code, zip_code)
        ELSE SplitByWords(before_state, state_code, zip_code)

\* LeadProcessor.parse_address
parse_address(address_str_raw) ==
    IF address_str_raw = <<>> THEN ParsedAddress(<<>>, <<>>, <<>>, <<>>)
    ELSE LET address_str == NormalizeCommas(RemoveCountry(Strip(address_str_raw)))
             zip_start == ZipStart(address_str)
             zip_code == SubSeq(address_str, zip_start,
                                zip_start + ZipAt(address_str, zip_start) - 1)
             before_zip == Before(address_str, zip_start)
             code_start == StateCodeStart(before_zip)
             name_index == StateNameIndex(before_zip)
         IN  IF zip_start = 0
             THEN ParsedAddress(address_str, <<>>, <<>>, <<>>)
             ELSE IF code_start > 0
             THEN SplitStreetCity(Before(before_zip, code_start),
                                  SubSeq(before_zip, code_start, code_start + 1),
                                  zip_code)
             ELSE IF name_index > 0
             THEN SplitStreetCity(
                      Before(before_zip,
                             StateNameStart(before_zip, state_names[name_index])),
                      state_codes[name_index], zip_code)
             ELSE ParsedAddress(before_zip, <<>>, <<>>, zip_code)

-----------------------------------------------------------------------------
(***************************************************************************)
(* PersonExtractor: DialerGUI.extract_people_from_data                     *)
(***************************************************************************)
\* seq.append(x) guarded by `x and x not in seq`
AppendNew(seq, x) == IF x = "" \/ x \in Range(seq) THEN seq ELSE Append(seq, x)

\* a or b or c on the values found under the given keys of a dict
RECURSIVE FirstTruthy(_, _)
FirstTruthy(d, keys) ==
    IF keys = <<>> THEN ""
    ELSE IF Truthy(DictGet(d, Head(keys))) THEN Text(DictGet(d, Head(keys)))
         ELSE FirstTruthy(d, Tail(keys))

\* the number carried by one entry of a phone list
PhoneNumOf(entry, keys, strings) ==
    IF IsDict(entry) THEN FirstTruthy(entry, keys)
    ELSE IF strings /\ IsStr(entry) THEN entry.s
         ELSE ""

\* for phone_obj in obj[key]: ... append when new
RECURSIVE CollectPhones(_, _, _, _)
CollectPhones(entries, keys, strings, acc) ==
    IF entries = <<>> THEN acc
    ELSE CollectPhones(Tail(entries), keys, strings,
                       AppendNew(acc, PhoneNumOf(Head(entries), keys, strings)))

ListUnder(obj, key) ==
    IF Truthy(DictGet(obj, key)) /\ IsList(DictGet(obj, key))
    THEN DictGet(obj, key).items ELSE <<>>

\* the key names recognised in the entries of obj['alternate_phones']
AlternatePhoneKeys == <<"phoneNumber">>
\* the key names recognised in the entries of obj['phones']
PhonesKeys == <<"phone_number", "phoneNumber", "phone">>
\* the key names recognised in the entries of obj['phone_numbers']
PhoneNumbersKeys == <<"phone_number", "phoneNumber">>

ExtractPhones(obj) ==
    LET p1 == CollectPhones(ListUnder(obj, "alternate_phones"),
                            AlternatePhoneKeys, FALSE, <<>>)
        p2 == CollectPhones(ListUnder(obj, "phones"), PhonesKeys, TRUE, p1)
        p3 == CollectPhones(ListUnder(obj, "phone_numbers"),
                            PhoneNumbersKeys, TRUE, p2)
    IN  AppendNew(p3, Text(DictGet(obj, "phone")))

\* ', '.join(parts)
RECURSIVE JoinComma(_)
JoinComma(parts) ==
    IF parts = <<>> THEN ""
    ELSE IF Len(parts) = 1 THEN parts[1]
         ELSE parts[1] \o ", " \o JoinComma(Tail(parts))

\* LeadProcessor.format_address
format_address(address_data) ==
    IF ~Truthy(address_data) THEN ""
    ELSE LET part(k) == IF Truthy(DictGet(address_data, k))
                        THEN <<Text(DictGet(address_data, k))>> ELSE <<>>
         IN  JoinComma(part("street_line_1") \o part("city")
                       \o part("state_code") \o part("postal_code"))

RECURSIVE CollectAddresses(_, _)
CollectAddresses(entries, acc) ==
    IF entries = <<>> THEN acc
    ELSE CollectAddresses(Tail(entries),
            IF IsDict(Head(entries))
            THEN AppendNew(acc, format_address(Head(entries)))
            ELSE acc)

ExtractAddresses(obj) ==
    CollectAddresses(ListUnder(obj, "historical_addresses"),
        CollectAddresses(ListUnder(obj, "current_addresses"), <<>>))

\* LeadProcessor.extract_age
extract_age(person_data) ==
    IF HasKey(person_data, "age") /\ Truthy(DictGet(person_data, "age"))
    THEN Text(DictGet(person_data, "age"))
    ELSE IF HasKey(person_data, "age_range")
            /\ Truthy(DictGet(person_data, "age_range"))
         THEN Text(DictGet(person_data, "age_range"))
         ELSE ""

\* obj.get('name') or f"{firstname} {lastname}".strip()
PersonName(obj) ==
    IF Truthy(DictGet(obj, "name")) THEN Text(DictGet(obj, "name"))
    ELSE LET fn == Text(DictGet(obj, "firstname"))
             ln == Text(DictGet(obj, "lastname"))
         IN  IF fn = "" THEN ln
             ELSE IF ln = "" THEN fn ELSE fn \o " " \o ln

\* the person record emitted at a dict node, if it carries a usable name
PersonAt(obj) ==
    IF (Truthy(DictGet(obj, "name")) \/ Truthy(DictGet(obj, "firstname"))
            \/ Truthy(DictGet(obj, "lastname")))
       /\ PersonName(obj) # ""
    THEN << [name |-> PersonName(obj), age |-> extract_age(obj),
             phones |-> ExtractPhones(obj),
             addresses |-> ExtractAddresses(obj)] >>
    ELSE <<>>

\* traverse(obj): the person at obj, then every dict child and every dict
\* item of a list child, in insertion order
RECURSIVE traverse(_)
RECURSIVE TraverseValues(_)
RECURSIVE TraverseListItems(_)
TraverseListItems(items) ==
    IF items = <<>> THEN <<>>
    ELSE (IF IsDict(Head(items)) THEN traverse(Head(items)) ELSE <<>>)
         \o TraverseListItems(Tail(items))
TraverseValues(items) ==
    IF items = <<>> THEN <<>>
    ELSE (IF IsDict(Head(items)) THEN traverse(Head(items))
          ELSE IF IsList(Head(items)) THEN TraverseListItems(Head(items).items)
               ELSE <<>>)
         \o TraverseValues(Tail(items))
traverse(obj) ==
    IF ~Truthy(obj) \/ ~IsDict(obj) THEN <<>>
    ELSE PersonAt(obj) \o TraverseValues(obj.items)

extract_people_from_data(data) ==
    IF IsDict(data) THEN traverse(data)
    ELSE IF IsList(data) THEN TraverseListItems(data.items)
         ELSE <<>>

-----------------------------------------------------------------------------
(***************************************************************************)
(* ResultAccumulator: DialerGUI.process_lookup_data and the two            *)
(* accumulate_*_results handlers.                                          *)
(***************************************************************************)
NoResultsFound == "NO RESULTS FOUND"

\* a mutant of ExtendNew: values are appended without the membership test
ExtendNew_All(dst, src) == dst \o src

\* for x in src: if x not in dst: dst.append(x)
RECURSIVE ExtendNew(_, _)
ExtendNew(dst, src) ==
    IF src = <<>> THEN dst
    ELSE ExtendNew(IF Head(src) \in Range(dst) THEN dst ELSE Append(dst, Head(src)),
                   Tail(src))

\* next((p for p in ... if p['name'] == name), None) over the names of a
\* list: the index of the first match, 0 if none
FirstIndex(names, name) ==
    IF \E i \in DOMAIN names : names[i] = name
    THEN CHOOSE i \in DOMAIN names :
            names[i] = name /\ \A j \in 1..(i - 1) : names[j] # name
    ELSE 0

\* the loop body of process_lookup_data: merge one extracted person into
\* found_people (phones and addresses only)
MergeFound(found_people, person_info) ==
    LET i == FirstIndex([k \in DOMAIN found_people |-> found_people[k].name],
                        person_info.name)
    IN  IF i # 0
        THEN [found_people EXCEPT
                ![i].phones = ExtendNew(@, person_info.phones),
                ![i].addresses = ExtendNew(@, person_info.addresses)]
        ELSE Append(found_people, person_info)

RECURSIVE MergeAllFound(_, _)
MergeAllFound(found_people, people) ==
    IF people = <<>> THEN found_people
    ELSE MergeAllFound(MergeFound(found_people, Head(people)), Tail(people))

\* a mutant of AddressLookupFailed: the flag is raised whatever came back
AddressLookupFailed_Always(address_data) == TRUE

\* the address_lookup_failed test of process_lookup_data
AddressLookupFailed(address_data) ==
    \/ ~Truthy(address_data)
    \/ ~HasKey(address_data, "current_residents")
    \/ ~Truthy(DictGet(address_data, "current_residents"))

LeadResult(person, person_info, failed) ==
    [original_address |-> person.address,
     original_phone |-> clean_phone(person.phone),
     original_name |-> person.name,
     age |-> person_info.age,
     new_phones |-> person_info.phones,
     new_addresses |-> person_info.addresses,
     new_name |-> person_info.name,
     status |-> "", notes |-> "",
     address_lookup_failed |-> failed]

SentinelResult(person, failed) ==
    LeadResult(person,
               [name |-> NoResultsFound, age |-> "", phones |-> <<>>,
                addresses |-> <<>>],
               failed)

\* DialerGUI.process_lookup_data
process_lookup_data(person, phone_data, address_data) ==
    LET address_lookup_failed == AddressLookupFailed(address_data)
        from_phone == IF Truthy(phone_data)
                      THEN MergeAllFound(<<>>, extract_people_from_data(phone_data))
                      ELSE <<>>
        found_people == IF Truthy(address_data)
                        THEN MergeAllFound(from_phone,
                                           extract_people_from_data(address_data))
                        ELSE from_phone
    IN  IF found_people = <<>>
        THEN <<SentinelResult(person, address_lookup_failed)>>
        ELSE [i \in 1..Len(found_people) |->
                LeadResult(person, found_people[i], address_lookup_failed)]

\* the loop body of accumulate_phone_results / accumulate_address_results:
\* merge one person into current_results; an address pass also clears the
\* address_lookup_failed flag of the result it merges into
MergeResult(results, person, person_info, clear_flag) ==
    LET i == FirstIndex([k \in DOMAIN results |-> results[k].new_name],
                        person_info.name)
    IN  IF i # 0
        THEN [results EXCEPT
                ![i].new_phones = ExtendNew(@, person_info.phones),
                ![i].new_addresses = ExtendNew(@, person_info.addresses),
                ![i].age = IF person_info.age # "" /\ @ = ""
                           THEN person_info.age ELSE @,
                ![i].address_lookup_failed = IF clear_flag THEN FALSE ELSE @]
        ELSE Append(results, LeadResult(person, person_info, FALSE))

RECURSIVE MergeAllResults(_, _, _, _)
MergeAllResults(results, person, people, clear_flag) ==
    IF people = <<>> THEN results
    ELSE MergeAllResults(MergeResult(results, person, Head(people), clear_flag),
                         person, Tail(people), clear_flag)

\* a mutant of StartsFresh: the sentinel is not looked for
StartsFresh_EmptyOnly(results) == results = <<>>

\* `not self.current_results or self.current_results[0]['new_name'] == ...`
StartsFresh(results) ==
    results = <<>> \/ results[1].new_name = NoResultsFound

\* DialerGUI.accumulate_phone_results (the state it leaves in current_results)
accumulate_phone_results(results, phone_data, original_person) ==
    IF StartsFresh(results)
    THEN process_lookup_data(original_person, phone_data, PyNone)
    ELSE MergeAllResults(results, original_person,
            IF Truthy(phone_data) THEN extract_people_from_data(phone_data)
            ELSE <<>>,
            FALSE)

\* DialerGUI.accumulate_address_results
accumulate_address_results(results, address_data, original_person) ==
    IF StartsFresh(results)
    THEN process_lookup_data(original_person, PyNone, address_data)
    ELSE MergeAllResults(results, original_person,
            IF Truthy(address_data) THEN extract_people_from_data(address_data)
            ELSE <<>>,
            TRUE)

-----------------------------------------------------------------------------
(***************************************************************************)
(* Inputs: contacts of the loaded spreadsheet and the documents the two    *)
(* lookup services return.                                                 *)
(***************************************************************************)
\* raw phone cells; each normalizes to a distinct "+1..." key
RawPhone0 == <<"(", "4", "1", "5", ")", " ", "5", "5", "5", "-", "0", "0", "0", "1">>
RawPhone0b == <<"+", "1", "-", "4", "1", "5", "-", "5", "5", "5", "-", "0", "0", "0", "1">>
RawPhone1 == <<"1", "4", "1", "5", "5", "5", "5", "0", "0", "0", "2">>
RawPhone2 == <<"4", "1", "5", ".", "5", "5", "5", ".", "0", "0", "0", "3">>
RawPhoneBlank == <<"n", "/", "a">>

Contact(name, phone, street) ==
    [name |-> name, phone |-> phone, address |-> street,
     city |-> "Austin", state |-> "TX", zip |-> "78701"]

\* self.original_data
original_data ==
    << Contact("Ann Lee", RawPhone0, "1 Main St"),
       Contact("Bob Ray", RawPhone1, "2 Oak Ave"),
       Contact("Cy Dow", RawPhone2, "3 Elm Rd") >>

PhoneEntry(key, number) == Dict(<<At(key, Str(number))>>)
AddressEntry(street) ==
    Dict(<<At("street_line_1", Str(street)), At("city", Str("Austin")),
           At("state_code", Str("TX")), At("postal_code", Str("78701"))>>)

\* reverse-phone responses
PhoneDocNoOwners ==
    Dict(<<At("id", Str("Phone.0")), At("is_valid", Bool(TRUE)),
           At("owners", List(<<>>))>>)
PhoneDocAnn ==
    Dict(<<At("id", Str("Phone.1")),
           At("owners", List(<<
              Dict(<<At("name", Str("Ann Lee")), At("age_range", Str("30-34")),
                     At("alternate_phones",
                        List(<<PhoneEntry("phoneNumber", "111"),
                               PhoneEntry("phoneNumber", "222"),
                               PhoneEntry("phoneNumber", "111")>>)),
                     At("current_addresses", List(<<AddressEntry("1 Main St")>>))
                   >>)>>))>>)
PhoneDocAnnBob ==
    Dict(<<At("id", Str("Phone.2")),
           At("owners", List(<<
              Dict(<<At("name", Str("Ann Lee")),
                     At("alternate_phones", List(<<PhoneEntry("phoneNumber", "333")>>)),
                     At("associated_people", List(<<
                        Dict(<<At("firstname", Str("Bob")), At("lastname", Str("Ray")),
                               At("age", Str("41")),
                               At("phones", List(<<Str("444"),
                                                   PhoneEntry("phone", "111")>>))>>),
                        Dict(<<At("name", Str("Ann Lee")),
                               At("phone", Str("222")),
                               At("historical_addresses",
                                  List(<<AddressEntry("9 Old Rd")>>))>>)>>))
                   >>)>>))>>)

\* reverse-address responses
AddrDocNoResidents ==
    Dict(<<At("id", Str("Location.0")), At("is_valid", Bool(FALSE)),
           At("current_residents", List(<<>>))>>)
AddrDocNameless ==
    Dict(<<At("id", Str("Location.1")), At("is_valid", Bool(TRUE)),
           At("current_residents", List(<<
              Dict(<<At("id", Str("Person.9")),
                     At("phones", List(<<PhoneEntry("phone_number", "999")>>))>>)>>))>>)
AddrDocAnn ==
    Dict(<<At("id", Str("Location.2")), At("is_valid", Bool(TRUE)),
           At("street_line_1", Str("1 Main St")), At("city", Str("Austin")),
           At("current_residents", List(<<
              Dict(<<At("name", Str("Ann Lee")), At("age", Str("33")),
                     At("phones", List(<<PhoneEntry("phone_number", "222"),
                                         PhoneEntry("phone_number", "555")>>))>>)>>))>>)
AddrDocCy ==
    Dict(<<At("id", Str("Location.3")), At("is_valid", Bool(TRUE)),
           At("current_residents", List(<<
              Dict(<<At("name", Str("Cy Dow")),
                     At("phones", List(<<PhoneEntry("phone_number", "555")>>)),
                     At("current_addresses", List(<<AddressEntry("3 Elm Rd")>>))>>),
              Dict(<<At("name", Str("Bob Ray")), At("age_range", Str("40-44")),
                     At("phones", List(<<PhoneEntry("phoneNumber", "444"),
                                         PhoneEntry("phone_number", "666")>>))>>)>>))>>)

PhoneDocs == {EmptyDict, PhoneDocNoOwners, PhoneDocAnn, PhoneDocAnnBob}
AddrDocs == {EmptyDict, AddrDocNoResidents, AddrDocNameless, AddrDocAnn, AddrDocCy}

AiDoc == Dict(<<At("ranked", List(<<Str("Ann Lee")>>))>>)

-----------------------------------------------------------------------------
(***************************************************************************)
(* CacheManager: the cache document, the file system and save_cache.       *)
(*                                                                         *)
(* The file system holds two names, the cache file ("canon") and its       *)
(* ".tmp" sibling, each bound to an inode (0: no such file).  An inode's   *)
(* content is complete once json.dump has run to its end and the file is   *)
(* closed.                                                                 *)
(***************************************************************************)
Threads == 1..MaxWorkers

\* self.cache_data as __init__ builds it.  shape tells what the 'lookups'
\* member of the document is: "document" when it is a map of entries
EmptyData == [lookups |-> <<>>, last_updated |-> 0, shape |-> "document"]

\* the TypeError an operation on a 'lookups' member that is no map raises
Raised == Node("", "raise", "TypeError", <<>>)

\* cache_entry of store_lookup; 'ai_analysis' is set only when has_ai
CacheEntry(ts, reverse_phone, reverse_address, ai_analysis) ==
    [timestamp |-> ts, reverse_phone |-> reverse_phone,
     reverse_address |-> reverse_address,
     has_ai |-> Truthy(ai_analysis),
     ai_analysis |-> IF Truthy(ai_analysis) THEN ai_analysis ELSE PyNone]

\* what json.dump writes of self.cache_data (and json.load reads back)
JsonOfData(data) ==
    [lookups |-> [k \in DOMAIN data.lookups |->
                    [data.lookups[k] EXCEPT
                        !.reverse_phone = ToJson(@),
                        !.reverse_address = ToJson(@),
                        !.ai_analysis = ToJson(@)]],
     last_updated |-> data.last_updated, shape |-> data.shape]

PartialContent == [complete |-> FALSE, data |-> EmptyData]
CompleteContent(data) == [complete |-> TRUE, data |-> JsonOfData(data)]

\* the file under the canonical name, as a reader would find it
CanonFile(f) ==
    IF f.canon = 0 THEN [exists |-> FALSE, complete |-> FALSE, data |-> EmptyData]
    ELSE [exists |-> TRUE, complete |-> f.inodes[f.canon].complete,
          data |-> f.inodes[f.canon].data]
TmpFile(f) ==
    IF f.tmp = 0 THEN [exists |-> FALSE, complete |-> FALSE, data |-> EmptyData]
    ELSE [exists |-> TRUE, complete |-> f.inodes[f.tmp].complete,
          data |-> f.inodes[f.tmp].data]

\* the file system after a save_cache that ran alone and without error
Saved(data) ==
    [canon |-> 1, tmp |-> 0, inodes |-> (1 :> CompleteContent(data))]

NoPre == [lookups |-> <<>>, file |-> CanonFile([canon |-> 0, tmp |-> 0, inodes |-> <<>>])]

\* the parts an address text was written from, when it was written from parts
NoForm == [house |-> <<>>, street |-> <<>>, city |-> <<>>, state |-> <<>>, zip |-> <<>>]

NoFrame ==
    [op |-> "none", phone |-> <<>>, key |-> <<>>,
     rp |-> PyNone, ra |-> PyNone, ai |-> PyNone, ret |-> PyNone,
     exists |-> FALSE, handle |-> 0, keys |-> {}, pre |-> NoPre,
     idx |-> 0, force |-> FALSE, was_cached |-> FALSE, cached_ai |-> PyNone,
     count |-> 0, results |-> <<>>, saved |-> "none",
     text |-> <<>>, form |-> NoForm, parsed |-> ParsedAddress(<<>>, <<>>, <<>>, <<>>),
     street |-> "", enable_ai |-> FALSE, requests |-> 0, ai_requests |-> 0]

Ready(t) == pc[t] \in {"idle", "done"}

\* inodes still named or held open
Prune(f, frames) ==
    LET live == ({f.canon, f.tmp} \cup {frames[t].handle : t \in Threads}) \ {0}
    IN  [f EXCEPT !.inodes = [i \in (DOMAIN f.inodes) \cap live |-> f.inodes[i]]]

FreeInode(f) == CHOOSE i \in 1..(MaxWorkers + 2) : i \notin DOMAIN f.inodes

\* a completed call, as observed by its caller
Call(fr, ret) ==
    [op |-> fr.op, phone |-> fr.phone, rp |-> fr.rp, ra |-> fr.ra,
     ai |-> fr.ai, ret |-> ret, pre |-> fr.pre, idx |-> fr.idx,
     force |-> fr.force, was_cached |-> fr.was_cached, count |-> fr.count,
     results |-> fr.results, saved |-> fr.saved,
     street |-> fr.street, enable_ai |-> fr.enable_ai,
     requests |-> fr.requests, ai_requests |-> fr.ai_requests]

Push(h, e) == IF Len(h) < MaxHist THEN Append(h, e) ELSE Append(Tail(h), e)

Last(h) == h[Len(h)]

\* whether the environment may fail a file operation at this step
Outcomes(faults) == IF faults THEN {"ok", "error"} ELSE {"ok"}

\* a mutant of temp_file: the document is written in place
temp_file_InPlace == "canon"

\* temp_file = self.cache_file + '.tmp': the name save_cache writes to
temp_file == "tmp"

\* save_cache up to open(temp_file, 'w'): stamp last_updated, then create the
\* file or truncate the one that is there
SaveOpen(t, faults) ==
    /\ pc[t] = "save_open"
    /\ \E o \in Outcomes(faults) :
        IF o = "ok"
        THEN LET h == IF fs[temp_file] = 0 THEN FreeInode(fs) ELSE fs[temp_file]
                 fr == [frame EXCEPT ![t].handle = h]
             IN  /\ fs' = Prune([fs EXCEPT ![temp_file] = h,
                                           !.inodes = (h :> PartialContent) @@ @], fr)
                 /\ frame' = fr
                 /\ pc' = [pc EXCEPT ![t] = "save_dump"]
        ELSE /\ pc' = [pc EXCEPT ![t] = "save_except"]
             /\ UNCHANGED <<fs, frame>>
    /\ cache_data' = [cache_data EXCEPT !.last_updated = clock]
    /\ UNCHANGED <<stats, clock, hist, gui, net, merged>>

\* json.dump starts to iterate over the document
SaveDump(t) ==
    /\ pc[t] = "save_dump"
    /\ frame' = [frame EXCEPT ![t].keys = DOMAIN cache_data.lookups]
    /\ pc' = [pc EXCEPT ![t] = "save_close"]
    /\ UNCHANGED <<cache_data, stats, clock, fs, hist, gui, net, merged>>

\* json.dump ends and the file is closed; a write error, or an entry added
\* to the dict while it was iterated (RuntimeError), leaves what was written
SaveClose(t, faults) ==
    /\ pc[t] = "save_close"
    /\ \E o \in Outcomes(faults) :
        LET fr == [frame EXCEPT ![t].handle = 0]
        IN  IF o = "ok" /\ frame[t].keys = DOMAIN cache_data.lookups
            THEN /\ fs' = Prune([fs EXCEPT !.inodes[frame[t].handle] =
                                        CompleteContent(cache_data)], fr)
                 /\ frame' = fr
                 /\ pc' = [pc EXCEPT ![t] = "save_exists"]
            ELSE /\ fs' = Prune(fs, fr)
                 /\ frame' = fr
                 /\ pc' = [pc EXCEPT ![t] = "save_except"]
    /\ UNCHANGED <<cache_data, stats, clock, hist, gui, net, merged>>

\* os.path.exists(self.cache_file)
SaveExists(t) ==
    /\ pc[t] = "save_exists"
    /\ frame' = [frame EXCEPT ![t].exists = (fs.canon # 0)]
    /\ pc' = [pc EXCEPT ![t] = IF fs.canon # 0 THEN "save_remove" ELSE "save_rename"]
    /\ UNCHANGED <<cache_data, stats, clock, fs, hist, gui, net, merged>>

\* os.remove(self.cache_file): FileNotFoundError if it is gone by now
SaveRemove(t, faults) ==
    /\ pc[t] = "save_remove"
    /\ \E o \in Outcomes(faults) :
        IF o = "ok" /\ fs.canon # 0
        THEN /\ fs' = Prune([fs EXCEPT !.canon = 0], frame)
             /\ pc' = [pc EXCEPT ![t] = "save_rename"]
        ELSE /\ pc' = [pc EXCEPT ![t] = "save_except"]
             /\ fs' = fs
    /\ UNCHANGED <<cache_data, stats, clock, frame, hist, gui, net, merged>>

\* os.rename(temp_file, self.cache_file), then `return True`
SaveRename(t, faults) ==
    /\ pc[t] = "save_rename"
    /\ \E o \in Outcomes(faults) :
        IF o = "ok" /\ fs.tmp # 0
        THEN /\ fs' = Prune([fs EXCEPT !.canon = fs.tmp, !.tmp = 0], frame)
             /\ frame' = [frame EXCEPT ![t].ret = Bool(TRUE)]
             /\ pc' = [pc EXCEPT ![t] = "save_return"]
        ELSE /\ pc' = [pc EXCEPT ![t] = "save_except"]
             /\ UNCHANGED <<fs, frame>>
    /\ UNCHANGED <<cache_data, stats, clock, hist, gui, net, merged>>

\* the except branch: remove the temp file if it exists, `return False`
SaveExcept(t) ==
    /\ pc[t] = "save_except"
    /\ fs' = Prune([fs EXCEPT !.tmp = 0], frame)
    /\ frame' = [frame EXCEPT ![t].ret = Bool(FALSE)]
    /\ pc' = [pc EXCEPT ![t] = "save_return"]
    /\ UNCHANGED <<cache_data, stats, clock, hist, gui, net, merged>>

\* store_lookup's `return self.save_cache()`: the call completes
SaveReturn(t) ==
    /\ pc[t] = "save_return"
    /\ hist' = Push(hist, Call(frame[t], frame[t].ret))
    /\ pc' = [pc EXCEPT ![t] = "done"]
    /\ frame' = [frame EXCEPT ![t] = NoFrame]
    /\ UNCHANGED <<cache_data, stats, clock, fs, gui, net, merged>>

\* a mutant of NothingToCache: empty results are stored like any other
NothingToCache_Never(reverse_phone_response, reverse_address_response) == FALSE

\* store_lookup's "only cache successful lookups" test
NothingToCache(reverse_phone_response, reverse_address_response) ==
    ~Truthy(reverse_phone_response) /\ ~Truthy(reverse_address_response)

\* a mutant of StoreKey: the entry is filed under the phone as given
StoreKey_Raw(phone) == phone

\* store_lookup's normalized_phone, the key the entry is filed under
StoreKey(phone) == normalize_phone(phone)

\* a mutant of PutEntry: an entry stored without analysis keeps the analysis
\* of the entry it replaces
PutEntry_KeepAnalysis(lookups, key, entry) ==
    IF key \in DOMAIN lookups /\ lookups[key].has_ai /\ ~entry.has_ai
    THEN (key :> [entry EXCEPT !.has_ai = TRUE,
                               !.ai_analysis = lookups[key].ai_analysis]) @@ lookups
    ELSE (key :> entry) @@ lookups

\* self.cache_data['lookups'][normalized_phone] = cache_entry
PutEntry(lookups, key, entry) == (key :> entry) @@ lookups

\* CacheManager.store_lookup up to its call of save_cache
StoreLookupCall(t, phone, reverse_phone_response, reverse_address_response, ai_analysis) ==
    /\ Ready(t)
    /\ clock < MaxClock
    /\ clock' = clock + 1
    /\ LET normalized_phone == StoreKey(phone)
           fr == [NoFrame EXCEPT !.op = "store_lookup", !.phone = phone,
                                 !.key = normalized_phone,
                                 !.rp = reverse_phone_response,
                                 !.ra = reverse_address_response,
                                 !.ai = ai_analysis,
                                 !.pre = [lookups |-> cache_data.lookups,
                                          file |-> CanonFile(fs)]]
       IN  IF normalized_phone = <<>>
              \/ NothingToCache(reverse_phone_response, reverse_address_response)
           THEN /\ hist' = Push(hist, Call(fr, Bool(FALSE)))
                /\ pc' = [pc EXCEPT ![t] = "done"]
                /\ UNCHANGED <<cache_data, frame>>
           ELSE IF cache_data.shape # "document"
           THEN /\ hist' = Push(hist, Call(fr, Raised))
                /\ pc' = [pc EXCEPT ![t] = "done"]
                /\ UNCHANGED <<cache_data, frame>>
           ELSE /\ cache_data' = [cache_data EXCEPT !.lookups =
                        PutEntry(@, normalized_phone,
                                 CacheEntry(clock + 1, reverse_phone_response,
                                            reverse_address_response, ai_analysis))]
                /\ frame' = [frame EXCEPT ![t] = fr]
                /\ pc' = [pc EXCEPT ![t] = "save_open"]
                /\ hist' = hist
    /\ UNCHANGED <<stats, fs, gui, net, merged>>

\* the value get_cached_lookup returns for a key of the cache
CachedTuple(entry) ==
    Tuple(<<entry.reverse_phone, entry.reverse_address,
            IF entry.has_ai THEN entry.ai_analysis ELSE EmptyDict>>)

\* CacheManager.get_cached_lookup: its return value and the statistics
get_cached_lookup(data, st, phone) ==
    LET normalized_phone == normalize_phone(phone)
    IN  IF normalized_phone = <<>>
        THEN [ret |-> PyNone, stats |-> st]
        ELSE IF data.shape = "lookups_null"
        THEN [ret |-> Raised, stats |-> st]
        ELSE IF normalized_phone \in DOMAIN data.lookups
             THEN [ret |-> CachedTuple(data.lookups[normalized_phone]),
                   stats |-> [st EXCEPT !.cache_hits = @ + 1,
                                        !.api_calls_saved = @ + 2]]
             ELSE [ret |-> PyNone,
                   stats |-> [st EXCEPT !.cache_misses = @ + 1]]

GetCachedLookupCall(t, phone) ==
    /\ Ready(t)
    /\ clock < MaxClock
    /\ clock' = clock + 1
    /\ LET r == get_cached_lookup(cache_data, stats, phone)
           fr == [NoFrame EXCEPT !.op = "get_cached_lookup", !.phone = phone,
                                 !.pre = [lookups |-> cache_data.lookups,
                                          file |-> CanonFile(fs)]]
       IN  /\ stats' = r.stats
           /\ hist' = Push(hist, Call(fr, r.ret))
    /\ pc' = [pc EXCEPT ![t] = "done"]
    /\ UNCHANGED <<cache_data, fs, frame, gui, net, merged>>

\* the counters __init__ sets to zero
ZeroStats == [cache_hits |-> 0, cache_misses |-> 0, api_calls_saved |-> 0]

\* a mutant of entry_count: the entries are counted after the cache is emptied
entry_count_After(data) == 0

\* clear_cache's entry_count: the entries held when the call starts
entry_count(data) == Cardinality(DOMAIN data.lookups)

\* CacheManager.clear_cache up to its call of save_cache; len(None) raises
\* when the 'lookups' member is null
ClearCacheCall(t) ==
    /\ Ready(t)
    /\ clock < MaxClock
    /\ clock' = clock + 1
    /\ LET fr == [NoFrame EXCEPT !.op = "clear_cache",
                                 !.count = entry_count(cache_data),
                                 !.pre = [lookups |-> cache_data.lookups,
                                          file |-> CanonFile(fs)]]
       IN  IF cache_data.shape = "lookups_null"
           THEN /\ hist' = Push(hist, Call(fr, Raised))
                /\ pc' = [pc EXCEPT ![t] = "done"]
                /\ UNCHANGED <<cache_data, frame>>
           ELSE /\ cache_data' = [lookups |-> <<>>, last_updated |-> clock',
                                  shape |-> "document"]
                /\ frame' = [frame EXCEPT ![t] = fr]
                /\ pc' = [pc EXCEPT ![t] = "save_open"]
                /\ hist' = hist
    /\ UNCHANGED <<stats, fs, gui, net, merged>>

\* CacheManager.update_ai_analysis up to its call of save_cache
\* a mutant of UpdatedEntry: the entry is built anew around the analysis
UpdatedEntry_Fresh(entry, ai_analysis, ts) ==
    CacheEntry(ts, EmptyDict, EmptyDict, ai_analysis)

\* update_ai_analysis's two assignments to the entry of the phone
UpdatedEntry(entry, ai_analysis, ts) ==
    [entry EXCEPT !.has_ai = TRUE, !.ai_analysis = ai_analysis, !.timestamp = ts]

UpdateAiAnalysisCall(t, phone, ai_analysis) ==
    /\ Ready(t)
    /\ clock < MaxClock
    /\ clock' = clock + 1
    /\ LET normalized_phone == normalize_phone(phone)
           fr == [NoFrame EXCEPT !.op = "update_ai_analysis", !.phone = phone,
                                 !.key = normalized_phone,
                                 !.ai = ai_analysis,
                                 !.pre = [lookups |-> cache_data.lookups,
                                          file |-> CanonFile(fs)]]
       IN  IF normalized_phone = <<>>
           THEN /\ hist' = Push(hist, Call(fr, Bool(FALSE)))
                /\ pc' = [pc EXCEPT ![t] = "done"]
                /\ UNCHANGED <<cache_data, frame>>
           ELSE IF cache_data.shape = "lookups_null"
           THEN /\ hist' = Push(hist, Call(fr, Raised))
                /\ pc' = [pc EXCEPT ![t] = "done"]
                /\ UNCHANGED <<cache_data, frame>>
           ELSE IF normalized_phone \in DOMAIN cache_data.lookups
           THEN /\ cache_data' = [cache_data EXCEPT
                        !.lookups[normalized_phone] =
                            UpdatedEntry(@, ai_analysis, clock + 1)]
                /\ frame' = [frame EXCEPT ![t] = fr]
                /\ pc' = [pc EXCEPT ![t] = "save_open"]
                /\ hist' = hist
           ELSE /\ hist' = Push(hist, Call(fr, Bool(FALSE)))
                /\ pc' = [pc EXCEPT ![t] = "done"]
                /\ UNCHANGED <<cache_data, frame>>
    /\ UNCHANGED <<stats, fs, gui, net, merged>>

\* a mutant of load_cache: the file is never read
load_cache_Fresh(f, data) == [data |-> data, save |-> FALSE, ret |-> FALSE]

\* CacheManager.load_cache over the files f, called with self.cache_data =
\* data: the cache_data it leaves, whether it calls save_cache, and its
\* return value.  A file cut short is the JSONDecodeError branch; a 'lookups'
\* member that is null passes the structure test, is assigned, and makes
\* len() raise into the last except clause.
load_cache(f, data) ==
    LET file == CanonFile(f)
    IN  IF ~file.exists
        THEN [data |-> data, save |-> TRUE, ret |-> FALSE]
        ELSE IF ~file.complete
        THEN [data |-> data, save |-> TRUE, ret |-> FALSE]
        ELSE IF file.data.shape \in {"not_a_map", "no_lookups"}
        THEN [data |-> data, save |-> TRUE, ret |-> FALSE]
        ELSE IF file.data.shape = "lookups_null"
        THEN [data |-> file.data, save |-> FALSE, ret |-> FALSE]
        ELSE [data |-> file.data, save |-> FALSE, ret |-> TRUE]

\* CacheManager.__init__: build the empty document, then load_cache
CacheManager(t) ==
    /\ pc[t] = "new"
    /\ LET r == load_cache(fs, EmptyData)
           fr == [NoFrame EXCEPT !.op = "__init__",
                                 !.pre = [lookups |-> <<>>,
                                          file |-> CanonFile(fs)]]
       IN  /\ cache_data' = r.data
           /\ IF r.save
              THEN /\ frame' = [frame EXCEPT ![t] = fr]
                   /\ pc' = [pc EXCEPT ![t] = "save_open"]
                   /\ hist' = hist
              ELSE /\ hist' = Push(hist, Call(fr, Bool(r.ret)))
                   /\ pc' = [pc EXCEPT ![t] = "done"]
                   /\ frame' = frame
    /\ stats' = ZeroStats
    /\ UNCHANGED <<clock, fs, gui, net, merged>>

\* the process dies: no thread runs any further, the files stay as they are
Crash ==
    /\ \E t \in Threads : pc[t] \notin {"idle", "done", "crashed"}
    /\ pc' = [t \in Threads |-> "crashed"]
    /\ frame' = [t \in Threads |-> NoFrame]
    /\ fs' = Prune(fs, [t \in Threads |-> NoFrame])
    /\ UNCHANGED <<cache_data, stats, clock, hist, gui, net, merged>>

-----------------------------------------------------------------------------
(***************************************************************************)
(* AIAssistant: whether it is enabled, and what its two requests return.   *)
(***************************************************************************)
\* a mutant of Enabled: the API key is not looked at
Enabled_LibraryOnly(api_key, has_openai) == has_openai

\* self.enabled = HAS_OPENAI and bool(api_key)
Enabled(api_key, has_openai) == has_openai /\ Truthy(api_key)

\* no assistant: LeadProcessor(api_key) leaves self.ai_assistant = None
NoAssistant == [present |-> FALSE, api_key |-> PyNone, enabled |-> FALSE]

\* AIAssistant.__init__
AIAssistant(api_key, has_openai) ==
    [present |-> TRUE, api_key |-> api_key, enabled |-> Enabled(api_key, has_openai)]

\* AIAssistant.correct_address: None without a request when disabled;
\* otherwise one request, answered by a corrected address or by nothing
\* usable (an error, an empty or an unparseable answer)
correct_address(assistant, ai_answer) ==
    IF ~assistant.enabled THEN [ret |-> PyNone, called |-> FALSE]
    ELSE [ret |-> IF ai_answer = "" THEN PyNone
                  ELSE Dict(<<At("street_line_1", Str(ai_answer)),
                              At("correction_reasoning", Str("fixed"))>>),
          called |-> TRUE]

\* AIAssistant.filter_and_rank_contacts: None without a request when
\* disabled; otherwise one request, answered by an analysis or not
filter_and_rank_contacts(assistant, ai_answer) ==
    IF ~assistant.enabled THEN [ret |-> PyNone, called |-> FALSE]
    ELSE [ret |-> IF ai_answer = "" THEN PyNone ELSE AiDoc, called |-> TRUE]

(***************************************************************************)
(* Initial values: the state after the CacheManager, the LeadProcessor and *)
(* the DialerGUI have been constructed and the spreadsheet loaded.         *)
(***************************************************************************)
\* a cache file left by an earlier session: empty, or holding one contact
InitCaches ==
    { EmptyData,
      [lookups |-> (normalize_phone(RawPhone0) :>
                        CacheEntry(0, PhoneDocAnn, AddrDocAnn, AiDoc)),
       last_updated |-> 0, shape |-> "document"] }

NoPass ==
    [kind |-> "none", phone_data |-> PyNone, address_data |-> PyNone,
     before |-> <<>>]

\* loads counts the load_person calls made so far; cleared is what the last
\* 'Cache Cleared' dialog reported: the phones cleared and when; after is the
\* queue of the callbacks handed to root.after(0, ...) and not yet run
GuiInit ==
    [current_person_idx |-> 0, current_results |-> <<>>, ai_results |-> PyNone,
     loads |-> 0, cleared |-> [keys |-> {}, at |-> 0, count |-> 0],
     after |-> <<>>]
\* the LeadProcessor's side of the services: the requests sent so far, its
\* ai_assistant, its ai_correction_attempts, and the requests the assistant
\* sent to the AI service
NetInit ==
    [phone_calls |-> <<>>, address_calls |-> <<>>,
     ai_assistant |-> NoAssistant, ai_correction_attempts |-> <<>>,
     ai_calls |-> <<>>]
MergedInit ==
    [people |-> <<>>, passes |-> 0, last |-> NoPass, address_missed |-> FALSE]

CacheInit ==
    /\ cache_data \in InitCaches
    /\ stats = ZeroStats
    /\ clock = 0
    /\ fs = Saved(cache_data)
    /\ pc = [t \in Threads |-> "idle"]
    /\ frame = [t \in Threads |-> NoFrame]
    /\ hist = <<>>

Init ==
    /\ CacheInit
    /\ gui = GuiInit
    /\ net = NetInit
    /\ merged = MergedInit

-----------------------------------------------------------------------------
(***************************************************************************)
(* SpecCache: one thread calling the CacheManager, with file operations    *)
(* that may fail and a process that may die at any step.                   *)
(***************************************************************************)
RawPhones == {RawPhone0, RawPhone0b, RawPhone1, RawPhoneBlank}

\* what process_row passes as the address document: address_lookup's tuple
AddrTupleEmpty == Tuple(<<EmptyDict, PyNone>>)

\* the store_lookup calls made: <<phone, phone document, address document,
\* analysis>>
StoreArgs ==
    { <<RawPhone0, PhoneDocAnn, AddrDocAnn, PyNone>>,
      <<RawPhone0b, EmptyDict, AddrDocCy, PyNone>>,
      <<RawPhone0b, PhoneDocAnnBob, EmptyDict, AiDoc>>,
      <<RawPhone1, PhoneDocAnn, AddrTupleEmpty, PyNone>>,
      <<RawPhone0, EmptyDict, EmptyDict, PyNone>>,
      <<RawPhone1, EmptyDict, EmptyDict, AiDoc>>,
      <<RawPhoneBlank, PhoneDocAnn, AddrDocAnn, PyNone>> }

NextCache ==
    \/ \E a \in StoreArgs : StoreLookupCall(1, a[1], a[2], a[3], a[4])
    \/ \E y \in RawPhones : GetCachedLookupCall(1, y)
    \/ SaveOpen(1, TRUE)
    \/ SaveDump(1)
    \/ SaveClose(1, TRUE)
    \/ SaveExists(1)
    \/ SaveRemove(1, TRUE)
    \/ SaveRename(1, TRUE)
    \/ SaveExcept(1)
    \/ SaveReturn(1)
    \/ Crash

SpecCache == Init /\ [][NextCache]_vars

(***************************************************************************)
(* SpecOps: one thread making store_lookup, update_ai_analysis,            *)
(* clear_cache and get_cached_lookup calls on one CacheManager, with file  *)
(* operations that may fail.                                               *)
(***************************************************************************)
OpsStoreArgs ==
    { <<RawPhone0, PhoneDocAnn, AddrDocAnn, PyNone>>,
      <<RawPhone0b, EmptyDict, AddrDocCy, AiDoc>>,
      <<RawPhone1, PhoneDocAnn, AddrTupleEmpty, PyNone>>,
      <<RawPhone1, EmptyDict, EmptyDict, PyNone>> }

OpsPhones == {RawPhone0, RawPhone1}

NextOps ==
    \/ \E a \in OpsStoreArgs : StoreLookupCall(1, a[1], a[2], a[3], a[4])
    \/ \E y \in OpsPhones, ai \in {AiDoc, EmptyDict} : UpdateAiAnalysisCall(1, y, ai)
    \/ ClearCacheCall(1)
    \/ \E y \in OpsPhones : GetCachedLookupCall(1, y)
    \/ SaveOpen(1, TRUE)
    \/ SaveDump(1)
    \/ SaveClose(1, TRUE)
    \/ SaveExists(1)
    \/ SaveRemove(1, TRUE)
    \/ SaveRename(1, TRUE)
    \/ SaveExcept(1)
    \/ SaveReturn(1)

SpecOps == Init /\ [][NextOps]_vars

(***************************************************************************)
(* SpecLoad: a CacheManager is constructed over whatever file an earlier   *)
(* session or another program left, and is then used.                      *)
(***************************************************************************)
\* a parseable file whose top level has the given shape
ShapedFile(shape) ==
    [canon |-> 1, tmp |-> 0,
     inodes |-> (1 :> [complete |-> TRUE,
                       data |-> [EmptyData EXCEPT !.shape = shape]])]

\* the files the constructor may find: none, one cut short, one that is not a
\* map, a map without 'lookups', a map whose 'lookups' is null or a list, and
\* well-formed documents
LoadFiles ==
    { [canon |-> 0, tmp |-> 0, inodes |-> <<>>],
      [canon |-> 1, tmp |-> 0, inodes |-> (1 :> PartialContent)] }
    \cup { ShapedFile(sh) : sh \in {"not_a_map", "no_lookups", "lookups_null",
                                    "lookups_list"} }
    \cup { Saved(c) : c \in InitCaches }

InitLoad ==
    /\ cache_data = EmptyData
    /\ stats = ZeroStats
    /\ clock = 0
    /\ fs \in LoadFiles
    /\ pc = [t \in Threads |-> IF t = 1 THEN "new" ELSE "idle"]
    /\ frame = [t \in Threads |-> NoFrame]
    /\ hist = <<>>
    /\ gui = GuiInit
    /\ net = NetInit
    /\ merged = MergedInit

NextLoad ==
    \/ CacheManager(1)
    \/ \E a \in OpsStoreArgs : StoreLookupCall(1, a[1], a[2], a[3], a[4])
    \/ \E y \in OpsPhones : GetCachedLookupCall(1, y)
    \/ SaveOpen(1, FALSE)
    \/ SaveDump(1)
    \/ SaveClose(1, FALSE)
    \/ SaveExists(1)
    \/ SaveRemove(1, FALSE)
    \/ SaveRename(1, FALSE)
    \/ SaveReturn(1)

SpecLoad == InitLoad /\ [][NextLoad]_vars

(***************************************************************************)
(* SpecConc: two threads, each storing the result of one resolve on the    *)
(* shared CacheManager; the file operations themselves do not fail.        *)
(***************************************************************************)
ConcPhone(t) == IF t = 1 THEN {RawPhone1} ELSE {RawPhone2}

ConcStore(t) ==
    /\ pc[t] = "idle"
    /\ \E x \in ConcPhone(t), A \in {EmptyDict, PhoneDocAnn, PhoneDocAnnBob},
          B \in {AddrDocAnn, AddrDocCy} : StoreLookupCall(t, x, A, B, PyNone)

NextConc ==
    \E t \in {1, 2} :
        \/ ConcStore(t)
        \/ SaveOpen(t, FALSE)
        \/ SaveDump(t)
        \/ SaveClose(t, FALSE)
        \/ SaveExists(t)
        \/ SaveRemove(t, FALSE)
        \/ SaveRename(t, FALSE)
        \/ SaveExcept(t)
        \/ SaveReturn(t)

SpecConc == Init /\ [][NextConc]_vars

-----------------------------------------------------------------------------
(***************************************************************************)
(* SpecMerge: merge passes on the results of the displayed contact: the    *)
(* phone-then-address merge of process_lookup_data (as load_person and     *)
(* perform_lookups run it) and the two accumulate handlers (as the manual  *)
(* lookups run them).                                                      *)
(***************************************************************************)
CurrentPerson == original_data[gui.current_person_idx + 1]

\* the person records a pass extracts from a document it is given
PeopleOf(doc) == IF Truthy(doc) THEN extract_people_from_data(doc) ELSE <<>>

\* whether a result list holds no real result
NoRealResults(results) ==
    \A i \in DOMAIN results : results[i].new_name = NoResultsFound

\* the address source was asked (None stands for a pass without an address
\* request) and came back without a resident record
AddressMiss(address_data) ==
    /\ address_data # PyNone
    /\ AddressLookupFailed(address_data) \/ PeopleOf(address_data) = <<>>

Pass(kind, phone_data, address_data) ==
    [kind |-> kind, phone_data |-> phone_data, address_data |-> address_data,
     before |-> gui.current_results]

\* self.current_results = self.process_lookup_data(person, phone_data, address_data)
PassProcessLookupData(phone_data, address_data) ==
    /\ merged.passes < MaxPasses
    /\ gui' = [gui EXCEPT !.current_results =
                    process_lookup_data(CurrentPerson, phone_data, address_data)]
    /\ merged' = [people |-> PeopleOf(phone_data) \o PeopleOf(address_data),
                  passes |-> merged.passes + 1,
                  last |-> Pass("process", phone_data, address_data),
                  address_missed |-> merged.address_missed \/ AddressMiss(address_data)]
    /\ UNCHANGED <<cache_data, stats, clock, fs, pc, frame, hist, net>>

PassAccumulatePhone(phone_data) ==
    /\ merged.passes < MaxPasses
    /\ gui' = [gui EXCEPT !.current_results =
                    accumulate_phone_results(@, phone_data, CurrentPerson)]
    /\ merged' = [people |-> (IF NoRealResults(gui.current_results) THEN <<>>
                              ELSE merged.people) \o PeopleOf(phone_data),
                  passes |-> merged.passes + 1,
                  last |-> Pass("phone", phone_data, PyNone),
                  address_missed |-> merged.address_missed]
    /\ UNCHANGED <<cache_data, stats, clock, fs, pc, frame, hist, net>>

PassAccumulateAddress(address_data) ==
    /\ merged.passes < MaxPasses
    /\ gui' = [gui EXCEPT !.current_results =
                    accumulate_address_results(@, address_data, CurrentPerson)]
    /\ merged' = [people |-> (IF NoRealResults(gui.current_results) THEN <<>>
                              ELSE merged.people) \o PeopleOf(address_data),
                  passes |-> merged.passes + 1,
                  last |-> Pass("address", PyNone, address_data),
                  address_missed |-> merged.address_missed \/ AddressMiss(address_data)]
    /\ UNCHANGED <<cache_data, stats, clock, fs, pc, frame, hist, net>>

NextMerge ==
    \/ \E pd \in PhoneDocs \cup {PyNone}, ad \in AddrDocs \cup {PyNone} :
            PassProcessLookupData(pd, ad)
    \/ \E pd \in PhoneDocs : PassAccumulatePhone(pd)
    \/ \E ad \in AddrDocs : PassAccumulateAddress(ad)

SpecMerge == Init /\ [][NextMerge]_vars

-----------------------------------------------------------------------------
(***************************************************************************)
(* The collaborators and the resolve paths.                                *)
(*                                                                         *)
(* Settings are the defaults: auto_phone_lookup and auto_address_lookup    *)
(* on, ai_enabled off, no AI assistant.  In the resolve paths save_cache   *)
(* runs to its end within store_lookup; its steps are interleaved in       *)
(* SpecConc.                                                               *)
(***************************************************************************)
\* `doc and doc.get(key)`
HasData(doc, key) == Truthy(doc) /\ Truthy(DictGet(doc, key))

\* `doc or {}`
OrEmpty(doc) == IF Truthy(doc) THEN doc ELSE EmptyDict

\* what the phone service answers for the phones of the sheet
PhoneService(phone) ==
    CASE phone = clean_phone(RawPhone0) -> PhoneDocAnn
      [] phone = clean_phone(RawPhone1) -> PhoneDocAnnBob
      [] OTHER -> EmptyDict

\* what the location service answers for the addresses of the sheet
LocationService(street) ==
    CASE street = "1 Main St" -> AddrDocAnn
      [] street = "2 Oak Ave" -> AddrDocNoResidents
      [] OTHER -> EmptyDict

\* LeadProcessor.phone_lookup: {} for a blank phone or a failed request
phone_lookup(phone, outcome) ==
    IF phone = <<>> \/ outcome # "ok" THEN EmptyDict ELSE PhoneService(phone)

\* LeadProcessor.address_lookup without an AI assistant: the tuple
\* (api_response, correction_info)
address_lookup(street, city, state, zip_code, outcome) ==
    IF street = "" /\ city = "" /\ state = "" /\ zip_code = ""
    THEN Tuple(<<EmptyDict, PyNone>>)
    ELSE IF outcome # "ok" THEN Tuple(<<EmptyDict, PyNone>>)
         ELSE Tuple(<<LocationService(street), PyNone>>)

\* CacheManager.store_lookup with a save_cache that runs alone
store_lookup(data, ts, phone, reverse_phone_response, reverse_address_response, ai_analysis) ==
    LET normalized_phone == StoreKey(phone)
    IN  IF normalized_phone = <<>>
           \/ NothingToCache(reverse_phone_response, reverse_address_response)
        THEN [ret |-> FALSE, data |-> data]
        ELSE [ret |-> TRUE,
              data |-> [lookups |-> PutEntry(data.lookups, normalized_phone,
                                             CacheEntry(ts, reverse_phone_response,
                                                        reverse_address_response,
                                                        ai_analysis)),
                        last_updated |-> ts, shape |-> data.shape]]

\* `doc and doc.get(key)` raises AttributeError when doc is a non-empty
\* tuple or list, which have no get
GetRaises(doc) == Truthy(doc) /\ ~IsDict(doc)

\* the exception a handler of the resolve path caught and reported as status
Caught == Node("", "caught", "AttributeError", <<>>)

\* the cache check shared by load_person, perform_lookups and
\* preload_person_data: the cached documents count only if they hold data
CacheCheck(phone) ==
    LET r == get_cached_lookup(cache_data, stats, phone)
        phone_data == IF Truthy(r.ret) THEN r.ret.items[1] ELSE PyNone
        address_data == IF Truthy(r.ret) THEN r.ret.items[2] ELSE PyNone
    IN  [stats |-> r.stats,
         found |-> Truthy(r.ret),
         phone_data |-> phone_data,
         address_data |-> address_data,
         cached_ai_analysis |-> IF Truthy(r.ret) THEN r.ret.items[3] ELSE PyNone,
         has_data |-> HasData(phone_data, "owners")
                        \/ HasData(address_data, "current_residents"),
         raises |-> GetRaises(phone_data) \/ GetRaises(address_data)]

Snapshot == [lookups |-> cache_data.lookups, file |-> CanonFile(fs)]

(***************************************************************************)
(* SpecBulk: LeadProcessor.process_row, called row by row; a request to    *)
(* the service may fail.                                                   *)
(***************************************************************************)
\* a mutant of SaveFailed: the error of the write leaves save_cache
SaveFailed_Raises == Raised

\* what save_cache, and with it store_lookup, returns when the write fails:
\* the except clause logs the error and returns False
SaveFailed == Bool(FALSE)

\* what a store_lookup that reaches save_cache hands its caller
StoreReturn(save_outcome) == IF save_outcome = "ok" THEN Bool(TRUE) ELSE SaveFailed

\* the key names process_row recognises in a phone entry
RowPhoneKeys == <<"phone_number", "phoneNumber", "phone">>

\* process_row's person_info for one owner of the phone document
OwnerInfo(phone_data, owner) ==
    [name |-> Text(DictGet(owner, "name")),
     age |-> extract_age(owner),
     phones |-> CollectPhones(ListUnder(owner, "alternate_phones"), RowPhoneKeys, TRUE,
                    IF HasKey(phone_data, "phone_number")
                    THEN <<Text(DictGet(phone_data, "phone_number"))>> ELSE <<>>),
     addresses |-> CollectAddresses(ListUnder(owner, "current_addresses"), <<>>)]

\* process_row, "From phone lookup": one person per dict in owners
RECURSIVE RowOwners(_, _)
RowOwners(phone_data, owners) ==
    IF owners = <<>> THEN <<>>
    ELSE (IF IsDict(Head(owners)) THEN <<OwnerInfo(phone_data, Head(owners))>> ELSE <<>>)
         \o RowOwners(phone_data, Tail(owners))

\* process_row, "From address lookup", for one resident: merged into the
\* person of the same name, or appended
RowResident(address_data, resident, found_people) ==
    LET resident_name == Text(DictGet(resident, "name"))
        names == [k \in DOMAIN found_people |-> found_people[k].name]
        i == FirstIndex(names, resident_name)
        person_info == IF i > 0 THEN found_people[i]
                       ELSE [name |-> resident_name, age |-> extract_age(resident),
                             phones |-> <<>>, addresses |-> <<>>]
        updated == [person_info EXCEPT
                        !.phones = CollectPhones(ListUnder(resident, "phones"),
                                                 RowPhoneKeys, TRUE, @),
                        !.addresses = AppendNew(@, format_address(address_data))]
    IN  IF i > 0 THEN [found_people EXCEPT ![i] = updated]
        ELSE Append(found_people, updated)

RECURSIVE RowResidents(_, _, _)
RowResidents(address_data, residents, found_people) ==
    IF residents = <<>> THEN found_people
    ELSE RowResidents(address_data, Tail(residents),
            IF IsDict(Head(residents))
            THEN RowResident(address_data, Head(residents), found_people)
            ELSE found_people)

\* process_row's found_people for the two documents it holds
RowFoundPeople(phone_data, address_data) ==
    LET from_phone ==
            IF Truthy(phone_data) /\ HasKey(phone_data, "owners")
            THEN RowOwners(phone_data, ListUnder(phone_data, "owners"))
            ELSE <<>>
    IN  IF Truthy(address_data) /\ HasKey(address_data, "current_residents")
        THEN RowResidents(address_data, ListUnder(address_data, "current_residents"),
                          from_phone)
        ELSE from_phone

\* one output row of process_row
RowResult(row, person_info, failed) ==
    [original_address |-> row.address,
     original_phone |-> clean_phone(row.phone),
     blank |-> "",
     age |-> person_info.age,
     original_name |-> row.name,
     new_phones |-> person_info.phones,
     new_addresses |-> person_info.addresses,
     new_name |-> person_info.name,
     status |-> "",
     address_lookup_failed |-> failed]

\* process_row, "Create output rows"
RowResults(row, found_people, failed) ==
    IF found_people = <<>>
    THEN << RowResult(row, [name |-> NoResultsFound, age |-> "", phones |-> <<>>,
                            addresses |-> <<>>], failed) >>
    ELSE [k \in DOMAIN found_people |-> RowResult(row, found_people[k], failed)]

\* process_row without Excel-cached data for a row that has no activity
\* score: the cache, the collaborators called, the store (whose write may
\* fail, leaving the file as it was) and the returned results and
\* address_lookup_failed.  An exception of store_lookup would leave
\* process_row, which has no handler.
ProcessRow(idx, force_refresh, faults, save_faults) ==
    /\ clock < MaxClock
    /\ clock' = clock + 1
    /\ \E phone_outcome \in Outcomes(faults), address_outcome \in Outcomes(faults),
          save_outcome \in Outcomes(save_faults) :
        \E row \in {original_data[idx + 1]} :
        \E original_phone \in {clean_phone(row.phone)} :
        \E r \in {get_cached_lookup(cache_data, stats, original_phone)} :
        \E used_cache \in {~force_refresh /\ Truthy(r.ret)} :
        \E fetch \in {~used_cache \/ force_refresh} :
        \E phone_data \in {IF fetch THEN phone_lookup(original_phone, phone_outcome)
                            ELSE r.ret.items[1]} :
        \E address_data \in {IF fetch
                              THEN address_lookup(row.address, row.city, row.state,
                                                  row.zip, address_outcome)
                              ELSE r.ret.items[2]} :
        \E st \in {IF fetch /\ (Truthy(phone_data) \/ Truthy(address_data))
                    THEN store_lookup(cache_data, clock + 1, original_phone,
                                      OrEmpty(phone_data), OrEmpty(address_data), PyNone)
                    ELSE [ret |-> FALSE, data |-> cache_data]} :
        \E address_lookup_failed \in
                {\/ ~Truthy(address_data)
                 \/ ~HasKey(address_data, "current_residents")
                 \/ ~Truthy(DictGet(address_data, "current_residents"))} :
        \E results \in {RowResults(row, RowFoundPeople(phone_data, address_data),
                                    address_lookup_failed)} :
        LET stored == IF st.ret THEN StoreReturn(save_outcome) ELSE Bool(FALSE)
            fr == [NoFrame EXCEPT !.op = "process_row", !.phone = original_phone,
                                  !.rp = phone_data, !.ra = address_data,
                                  !.idx = idx, !.force = force_refresh,
                                  !.was_cached = used_cache, !.pre = Snapshot,
                                  !.saved = IF st.ret THEN save_outcome ELSE "none",
                                  !.results = IF stored = Raised THEN <<>> ELSE results]
        IN  /\ stats' = IF force_refresh THEN stats ELSE r.stats
            /\ cache_data' = st.data
            /\ fs' = IF st.ret /\ save_outcome = "ok" THEN Saved(st.data) ELSE fs
            /\ net' = IF fetch
                      THEN [net EXCEPT
                                !.phone_calls = Append(@, original_phone),
                                !.address_calls = Append(@, row.address)]
                      ELSE net
            /\ hist' = Push(hist, Call(fr, IF stored = Raised THEN Raised
                                           ELSE Bool(address_lookup_failed)))

\* a process_row call on its own
process_row(idx, force_refresh, faults, save_faults) ==
    /\ ProcessRow(idx, force_refresh, faults, save_faults)
    /\ UNCHANGED <<pc, frame, gui, merged>>

NextBulk ==
    \E idx \in 0..(Len(original_data) - 1), force_refresh \in BOOLEAN :
        process_row(idx, force_refresh, TRUE, FALSE)

SpecBulk == Init /\ [][NextBulk]_vars

(***************************************************************************)
(* SpecBulkRun: one run of the BulkProcessorGUI.  start_processing starts  *)
(* the worker thread, which runs process_excel_file_bulk over the rows of  *)
(* the sheet; stop_processing may be pressed while the worker runs.  gui   *)
(* holds the BulkProcessorGUI: processing, the row update_progress last    *)
(* showed, the number of rows to process and the phones found in an        *)
(* existing output file.  stopped, stop_progress, stop_calls and           *)
(* stop_in_row record the first press of Stop: the row shown, the phone    *)
(* requests made so far, and whether the worker was inside a row.          *)
(***************************************************************************)
BulkGuiInit ==
    [processing |-> FALSE, runs |-> 0, progress |-> 0, total |-> 0, excel |-> {},
     stopped |-> FALSE, stop_progress |-> 0, stop_calls |-> 0, stop_in_row |-> FALSE]

\* the phones _load_cache_from_excel may find in the output file
ExcelCaches == {{}, {clean_phone(original_data[2].phone)}}

InitBulkRun ==
    /\ CacheInit
    /\ \E excel \in ExcelCaches : gui = [BulkGuiInit EXCEPT !.excel = excel]
    /\ net = NetInit
    /\ merged = MergedInit

\* start_processing with valid inputs, up to thread.start(), and the
\* worker up to the loop of process_excel_file_bulk; max_rows = 0 stands
\* for an empty Max rows field
start_processing(max_rows) ==
    /\ gui.runs = 0
    /\ pc[1] = "idle"
    /\ gui' = [gui EXCEPT !.processing = TRUE, !.runs = 1,
                          !.total = IF max_rows > 0 /\ max_rows < Len(original_data)
                                    THEN max_rows ELSE Len(original_data)]
    /\ pc' = [pc EXCEPT ![1] = "bulk_row"]
    /\ frame' = [frame EXCEPT ![1] = [NoFrame EXCEPT !.op = "process_excel_file_bulk"]]
    /\ UNCHANGED <<cache_data, stats, clock, fs, hist, net, merged>>

\* the head of the loop over the rows: progress_callback and the test of
\* the output file's rows; frame.idx is the row, frame.count cached_count
BulkRow ==
    /\ pc[1] = "bulk_row"
    /\ IF frame[1].idx < gui.total
       THEN /\ gui' = [gui EXCEPT !.progress = frame[1].idx + 1]
            /\ IF clean_phone(original_data[frame[1].idx + 1].phone) \in gui.excel
               THEN /\ frame' = [frame EXCEPT ![1].idx = @ + 1, ![1].count = @ + 1]
                    /\ pc' = pc
               ELSE /\ pc' = [pc EXCEPT ![1] = "bulk_api"]
                    /\ frame' = frame
       ELSE /\ pc' = [pc EXCEPT ![1] = "bulk_output"]
            /\ UNCHANGED <<gui, frame>>
    /\ UNCHANGED <<cache_data, stats, clock, fs, hist, net, merged>>

\* results, address_error = self.process_row(row); an exception leaves the
\* loop for process_worker's handler
BulkApi ==
    /\ pc[1] = "bulk_api"
    /\ ProcessRow(frame[1].idx, FALSE, TRUE, FALSE)
    /\ frame' = [frame EXCEPT ![1].idx = @ + 1]
    /\ pc' = [pc EXCEPT ![1] = IF Last(hist').ret = Raised THEN "bulk_output"
                                ELSE "bulk_row"]
    /\ UNCHANGED <<gui, merged>>

\* create_excel_output and process_worker's finally clause
BulkOutput ==
    /\ pc[1] = "bulk_output"
    /\ gui' = [gui EXCEPT !.processing = FALSE]
    /\ pc' = [pc EXCEPT ![1] = "idle"]
    /\ frame' = [frame EXCEPT ![1] = NoFrame]
    /\ UNCHANGED <<cache_data, stats, clock, fs, hist, net, merged>>

\* the Stop button, enabled from start_processing to the end of the worker
stop_processing ==
    /\ pc[1] # "idle"
    /\ gui' = IF gui.stopped THEN [gui EXCEPT !.processing = FALSE]
              ELSE [gui EXCEPT !.processing = FALSE, !.stopped = TRUE,
                               !.stop_progress = gui.progress,
                               !.stop_calls = Len(net.phone_calls),
                               !.stop_in_row = (pc[1] = "bulk_api")]
    /\ UNCHANGED <<cache_data, stats, clock, fs, pc, frame, hist, net, merged>>

NextBulkRun ==
    \/ \E max_rows \in 0..Len(original_data) : start_processing(max_rows)
    \/ BulkRow
    \/ BulkApi
    \/ BulkOutput
    \/ stop_processing

SpecBulkRun == InitBulkRun /\ [][NextBulkRun]_vars

(***************************************************************************)
(* SpecDialer: the dialer's main thread (load_person, next_person,         *)
(* prev_person) and its worker threads (perform_lookups,                   *)
(* preload_person_data); requests to the service do not fail, no refresh   *)
(* and no manual lookup is requested.                                      *)
(***************************************************************************)
Idle == {t \in Threads : pc[t] = "idle"}

Lowest(S) == CHOOSE t \in S : \A u \in S : t <= u

WorkerFrame(op, idx, force_refresh) ==
    [NoFrame EXCEPT !.op = op, !.idx = idx, !.force = force_refresh,
                    !.phone = clean_phone(original_data[idx + 1].phone)]

\* DialerGUI.load_person for an index of the sheet
load_person(index) ==
    LET person == original_data[index + 1]
        original_phone == clean_phone(person.phone)
        next_idx == index + 1
        preloading == next_idx < Len(original_data)
        c == CacheCheck(original_phone)
        hit == c.found /\ c.has_data
        needed == (IF preloading THEN 1 ELSE 0) + (IF hit THEN 0 ELSE 1)
        preloader == Lowest(Idle)
        worker == IF preloading THEN Lowest(Idle \ {preloader}) ELSE Lowest(Idle)
    IN  /\ gui.loads < MaxLoads
        /\ Cardinality(Idle) >= needed
        /\ stats' = c.stats
        /\ gui' = [current_person_idx |-> index,
                   ai_results |-> PyNone,
                   current_results |->
                        IF hit
                        THEN process_lookup_data(person, c.phone_data, c.address_data)
                        ELSE gui.current_results,
                   loads |-> gui.loads + 1,
                   cleared |-> gui.cleared,
                   after |-> gui.after]
        /\ pc' = [t \in Threads |->
                    IF preloading /\ t = preloader THEN "preload_check"
                    ELSE IF ~hit /\ t = worker THEN "perform_check"
                    ELSE pc[t]]
        /\ frame' = [t \in Threads |->
                    IF preloading /\ t = preloader
                    THEN WorkerFrame("preload_person_data", next_idx, FALSE)
                    ELSE IF ~hit /\ t = worker
                    THEN WorkerFrame("perform_lookups", index, FALSE)
                    ELSE frame[t]]
        /\ UNCHANGED <<cache_data, clock, fs, hist, net, merged>>

\* load_excel_data's `self.load_person(0)`
LoadFirstPerson ==
    /\ gui.loads = 0
    /\ load_person(0)

next_person ==
    /\ gui.loads > 0
    /\ gui.current_person_idx < Len(original_data) - 1
    /\ load_person(gui.current_person_idx + 1)

prev_person ==
    /\ gui.loads > 0
    /\ gui.current_person_idx > 0
    /\ load_person(gui.current_person_idx - 1)

\* a worker's cache check; `found` is where it goes on with cached data
WorkerCheck(t, here, found, missing) ==
    /\ pc[t] = here
    /\ LET c == CacheCheck(frame[t].phone)
           hit == ~frame[t].force /\ c.found /\ c.has_data
       IN  /\ stats' = IF frame[t].force THEN stats ELSE c.stats
           /\ frame' = IF hit
                       THEN [frame EXCEPT ![t].rp = c.phone_data,
                                          ![t].ra = c.address_data,
                                          ![t].cached_ai = c.cached_ai_analysis,
                                          ![t].was_cached = TRUE,
                                          ![t].pre = Snapshot]
                       ELSE [frame EXCEPT ![t].pre = Snapshot]
           /\ pc' = [pc EXCEPT ![t] = IF hit THEN found ELSE missing]
    /\ UNCHANGED <<cache_data, clock, fs, hist, gui, net, merged>>

\* phone_data = self.lead_processor.phone_lookup(original_phone)
WorkerPhone(t, here, then) ==
    /\ pc[t] = here
    /\ frame' = [frame EXCEPT ![t].rp = phone_lookup(frame[t].phone, "ok")]
    /\ net' = IF frame[t].phone = <<>> THEN net
              ELSE [net EXCEPT !.phone_calls = Append(@, frame[t].phone)]
    /\ pc' = [pc EXCEPT ![t] = then]
    /\ UNCHANGED <<cache_data, stats, clock, fs, hist, gui, merged>>

\* address_data, correction_info = self.lead_processor.address_lookup(...)
WorkerAddress(t, here, then) ==
    /\ pc[t] = here
    /\ LET person == original_data[frame[t].idx + 1]
           result == address_lookup(person.address, person.city, person.state,
                                    person.zip, "ok")
       IN  /\ frame' = [frame EXCEPT ![t].ra = result.items[1]]
           /\ net' = [net EXCEPT !.address_calls = Append(@, person.address)]
    /\ pc' = [pc EXCEPT ![t] = then]
    /\ UNCHANGED <<cache_data, stats, clock, fs, hist, gui, merged>>

\* the store of a worker that fetched: only if owners or residents came back
WorkerStored ==
    [t \in Threads |->
        IF HasData(frame[t].rp, "owners") \/ HasData(frame[t].ra, "current_residents")
        THEN store_lookup(cache_data, clock + 1, frame[t].phone,
                          OrEmpty(frame[t].rp), OrEmpty(frame[t].ra), PyNone)
        ELSE [ret |-> FALSE, data |-> cache_data]]

PerformCheck(t) == WorkerCheck(t, "perform_check", "perform_publish", "perform_phone")
PerformPhone(t) == WorkerPhone(t, "perform_phone", "perform_address")
PerformAddress(t) == WorkerAddress(t, "perform_address", "perform_store")

PerformStore(t) ==
    /\ pc[t] = "perform_store"
    /\ cache_data' = WorkerStored[t].data
    /\ fs' = IF WorkerStored[t].ret THEN Saved(WorkerStored[t].data) ELSE fs
    /\ clock' = IF WorkerStored[t].ret THEN clock + 1 ELSE clock
    /\ pc' = [pc EXCEPT ![t] = "perform_publish"]
    /\ UNCHANGED <<stats, frame, hist, gui, net, merged>>

\* perform_lookups from process_lookup_data on: self.current_results = results
PerformPublish(t) ==
    /\ pc[t] = "perform_publish"
    /\ gui' = [gui EXCEPT !.current_results =
                    process_lookup_data(original_data[frame[t].idx + 1],
                                        frame[t].rp, frame[t].ra)]
    /\ hist' = Push(hist, Call(frame[t], PyNone))
    /\ pc' = [pc EXCEPT ![t] = "idle"]
    /\ frame' = [frame EXCEPT ![t] = NoFrame]
    /\ UNCHANGED <<cache_data, stats, clock, fs, net, merged>>

PreloadCheck(t) == WorkerCheck(t, "preload_check", "preload_return", "preload_phone")
PreloadPhone(t) == WorkerPhone(t, "preload_phone", "preload_address")
PreloadAddress(t) == WorkerAddress(t, "preload_address", "preload_store")

PreloadStore(t) ==
    /\ pc[t] = "preload_store"
    /\ cache_data' = WorkerStored[t].data
    /\ fs' = IF WorkerStored[t].ret THEN Saved(WorkerStored[t].data) ELSE fs
    /\ clock' = IF WorkerStored[t].ret THEN clock + 1 ELSE clock
    /\ pc' = [pc EXCEPT ![t] = "preload_return"]
    /\ UNCHANGED <<stats, frame, hist, gui, net, merged>>

\* preload_person_data returns; it never touches current_results
PreloadReturn(t) ==
    /\ pc[t] = "preload_return"
    /\ hist' = Push(hist, Call(frame[t], PyNone))
    /\ pc' = [pc EXCEPT ![t] = "idle"]
    /\ frame' = [frame EXCEPT ![t] = NoFrame]
    /\ UNCHANGED <<cache_data, stats, clock, fs, gui, net, merged>>

NextDialer ==
    \/ LoadFirstPerson
    \/ next_person
    \/ prev_person
    \/ \E t \in Threads :
        \/ PerformCheck(t)
        \/ PerformPhone(t)
        \/ PerformAddress(t)
        \/ PerformStore(t)
        \/ PerformPublish(t)
        \/ PreloadCheck(t)
        \/ PreloadPhone(t)
        \/ PreloadAddress(t)
        \/ PreloadStore(t)
        \/ PreloadReturn(t)

SpecDialer == Init /\ [][NextDialer]_vars

(***************************************************************************)
(* SpecDialerAi: the dialer as in SpecDialer with the settings ai_enabled  *)
(* and ai_person_filtering on and an enabled assistant.  gui has the       *)
(* additional field preloaded_ai_results; gui.after queues the             *)
(* _update_ai_results callbacks.  frame[t].count is the person_idx a       *)
(* background analysis was started with.                                   *)
(***************************************************************************)
\* the analysis the AI service gives for a contact: it ranks the records
\* for the contact it was asked about
AnalysisFor(person) == Dict(<<At("ranked", List(<<Str(person.name)>>))>>)

\* DialerGUI.process_ai_analysis
process_ai_analysis(assistant, person, ai_answer) ==
    IF ~assistant.present THEN PyNone
    ELSE IF Truthy(filter_and_rank_contacts(assistant, ai_answer).ret)
    THEN AnalysisFor(person)
    ELSE PyNone

\* has_results: some result is not the 'NO RESULTS FOUND' row
HasResults(results) ==
    \E i \in DOMAIN results : results[i].new_name # NoResultsFound

\* CacheManager.update_ai_analysis with a save that succeeds: the document
\* it leaves and whether it was written
update_ai_analysis(data, ts, phone, ai_analysis) ==
    IF normalize_phone(phone) # <<>> /\ normalize_phone(phone) \in DOMAIN data.lookups
    THEN [ret |-> TRUE,
          data |-> [data EXCEPT !.lookups[normalize_phone(phone)] =
                                    UpdatedEntry(@, ai_analysis, ts),
                                !.last_updated = ts]]
    ELSE [ret |-> FALSE, data |-> data]

InitDialerAi ==
    /\ CacheInit
    /\ cache_data = EmptyData
    /\ gui = ("preloaded_ai_results" :> <<>>) @@ GuiInit
    /\ net = [NetInit EXCEPT !.ai_assistant = AIAssistant(Str("sk-test-dummy-key"), TRUE)]
    /\ merged = MergedInit

\* DialerGUI.load_person with AI person filtering on
LoadPersonAi(index) ==
    /\ gui.loads < MaxLoads
    /\ \E person \in {original_data[index + 1]} :
       \E original_phone \in {clean_phone(original_data[index + 1].phone)} :
       \E c \in {CacheCheck(clean_phone(original_data[index + 1].phone))} :
       \E hit \in {c.found /\ c.has_data} :
       \E results \in {IF hit THEN process_lookup_data(person, c.phone_data, c.address_data)
                       ELSE <<>>} :
       \E preloaded \in {original_phone \in DOMAIN gui.preloaded_ai_results} :
       \E analyse \in {hit /\ HasResults(results) /\ ~preloaded
                        /\ ~Truthy(c.cached_ai_analysis)
                        /\ (Truthy(c.phone_data) \/ Truthy(c.address_data))} :
       \E preloading \in {index + 1 < Len(original_data)} :
       \E needed \in {(IF preloading THEN 1 ELSE 0) + (IF ~hit \/ analyse THEN 1 ELSE 0)} :
          /\ Cardinality(Idle) >= needed
          /\ \E preloader \in {IF preloading THEN Lowest(Idle) ELSE 0} :
             \E worker \in {IF ~hit \/ analyse THEN Lowest(Idle \ {preloader}) ELSE 0} :
                /\ pc' = [t \in Threads |->
                            IF t = preloader THEN "preload_check"
                            ELSE IF t = worker
                            THEN (IF hit THEN "ai_run" ELSE "perform_check")
                            ELSE pc[t]]
                /\ frame' = [t \in Threads |->
                            IF t = preloader
                            THEN WorkerFrame("preload_person_data", index + 1, FALSE)
                            ELSE IF t = worker
                            THEN (IF hit
                                  THEN [WorkerFrame("_run_ai_analysis_background",
                                                    index, FALSE)
                                            EXCEPT !.rp = c.phone_data,
                                                   !.ra = c.address_data,
                                                   !.count = index]
                                  ELSE WorkerFrame("perform_lookups", index, FALSE))
                            ELSE frame[t]]
          /\ stats' = c.stats
          /\ gui' = [gui EXCEPT
                        !.current_person_idx = index,
                        !.loads = @ + 1,
                        !.current_results = IF hit THEN results ELSE @,
                        !.preloaded_ai_results =
                            [k \in DOMAIN @ \ {original_phone} |-> @[k]],
                        !.ai_results =
                            IF hit /\ HasResults(results)
                            THEN (IF preloaded THEN gui.preloaded_ai_results[original_phone]
                                  ELSE IF Truthy(c.cached_ai_analysis)
                                  THEN c.cached_ai_analysis
                                  ELSE PyNone)
                            ELSE PyNone]
    /\ UNCHANGED <<cache_data, clock, fs, hist, net, merged>>

\* load_excel_data's `self.load_person(0)`, next_person and prev_person
NavigateAi ==
    \/ gui.loads = 0 /\ LoadPersonAi(0)
    \/ /\ gui.loads > 0
       /\ gui.current_person_idx < Len(original_data) - 1
       /\ LoadPersonAi(gui.current_person_idx + 1)
    \/ /\ gui.loads > 0
       /\ gui.current_person_idx > 0
       /\ LoadPersonAi(gui.current_person_idx - 1)

\* perform_lookups from process_lookup_data on, with AI person filtering:
\* a cached analysis is assigned to self.ai_results by the worker itself;
\* without one the worker reads self.current_person_idx and starts the
\* background analysis, which goes on on this thread
PerformPublishAi(t) ==
    /\ pc[t] = "perform_publish"
    /\ \E results \in {process_lookup_data(original_data[frame[t].idx + 1],
                                           frame[t].rp, frame[t].ra)} :
       \E wanted \in {HasResults(results)
                        /\ (Truthy(frame[t].rp) \/ Truthy(frame[t].ra))} :
          /\ gui' = [gui EXCEPT
                        !.current_results = results,
                        !.ai_results = IF wanted /\ Truthy(frame[t].cached_ai)
                                       THEN frame[t].cached_ai ELSE @]
          /\ IF wanted /\ ~Truthy(frame[t].cached_ai)
             THEN /\ pc' = [pc EXCEPT ![t] = "ai_run"]
                  /\ frame' = [frame EXCEPT
                                ![t].op = "_run_ai_analysis_background",
                                ![t].count = gui.current_person_idx]
                  /\ hist' = hist
             ELSE /\ hist' = hist
                  /\ pc' = [pc EXCEPT ![t] = "idle"]
                  /\ frame' = [frame EXCEPT ![t] = NoFrame]
    /\ UNCHANGED <<cache_data, stats, clock, fs, net, merged>>

\* DialerGUI._run_ai_analysis_background
AiRun(t, ai_answer) ==
    /\ pc[t] = "ai_run"
    /\ \E ai_results \in {process_ai_analysis(net.ai_assistant,
                                              original_data[frame[t].idx + 1],
                                              ai_answer)} :
       \E u \in {IF Truthy(ai_results)
                 THEN update_ai_analysis(cache_data, clock + 1, frame[t].phone, ai_results)
                 ELSE [ret |-> FALSE, data |-> cache_data]} :
          /\ cache_data' = u.data
          /\ fs' = IF u.ret THEN Saved(u.data) ELSE fs
          /\ clock' = IF u.ret THEN clock + 1 ELSE clock
          /\ gui' = IF Truthy(ai_results)
                    THEN [gui EXCEPT !.after =
                            Append(@, [op |-> "_update_ai_results",
                                       ai_results |-> ai_results,
                                       original_phone |-> frame[t].phone,
                                       person_idx |-> frame[t].count])]
                    ELSE gui
          /\ hist' = hist
    /\ pc' = [pc EXCEPT ![t] = "idle"]
    /\ frame' = [frame EXCEPT ![t] = NoFrame]
    /\ UNCHANGED <<stats, net, merged>>

\* the main thread runs a queued DialerGUI._update_ai_results
UpdateAiResults ==
    /\ gui.after # <<>>
    /\ \E cb \in {Head(gui.after)} :
          gui' = [gui EXCEPT
                    !.after = Tail(@),
                    !.ai_results =
                        IF gui.current_person_idx # cb.person_idx
                        THEN @
                        ELSE IF clean_phone(CurrentPerson.phone) # cb.original_phone
                        THEN @
                        ELSE cb.ai_results]
    /\ UNCHANGED <<cache_data, stats, clock, fs, pc, frame, hist, net, merged>>

\* preload_person_data after its cache check or its store: the cached
\* analysis, or the one preload_ai_analysis obtains, is kept in
\* preloaded_ai_results
PreloadAi(t, ai_answer) ==
    /\ pc[t] = "preload_return"
    /\ \E person \in {original_data[frame[t].idx + 1]} :
       \E results \in {process_lookup_data(original_data[frame[t].idx + 1],
                                           frame[t].rp, frame[t].ra)} :
       \E asks \in {~(frame[t].was_cached /\ Truthy(frame[t].cached_ai))
                     /\ net.ai_assistant.present /\ HasResults(results)
                     /\ (Truthy(frame[t].rp) \/ Truthy(frame[t].ra))} :
       \E ai_results \in {IF asks
                          THEN process_ai_analysis(net.ai_assistant, person, ai_answer)
                          ELSE IF frame[t].was_cached THEN frame[t].cached_ai
                          ELSE PyNone} :
       \E u \in {IF asks /\ Truthy(ai_results)
                 THEN update_ai_analysis(cache_data, clock + 1, frame[t].phone, ai_results)
                 ELSE [ret |-> FALSE, data |-> cache_data]} :
          /\ cache_data' = u.data
          /\ fs' = IF u.ret THEN Saved(u.data) ELSE fs
          /\ clock' = IF u.ret THEN clock + 1 ELSE clock
          /\ gui' = IF Truthy(ai_results)
                    THEN [gui EXCEPT !.preloaded_ai_results =
                                        (frame[t].phone :> ai_results) @@ @]
                    ELSE gui
          /\ hist' = hist
    /\ pc' = [pc EXCEPT ![t] = "idle"]
    /\ frame' = [frame EXCEPT ![t] = NoFrame]
    /\ UNCHANGED <<stats, net, merged>>

\* the two requests of a worker that found no cached data, and its store
WorkerFetch(t, here, then) ==
    /\ pc[t] = here
    /\ \E person \in {original_data[frame[t].idx + 1]} :
       \E phone_data \in {phone_lookup(frame[t].phone, "ok")} :
       \E address_data \in {address_lookup(person.address, person.city, person.state,
                                           person.zip, "ok").items[1]} :
       \E st \in {IF HasData(phone_data, "owners")
                      \/ HasData(address_data, "current_residents")
                  THEN store_lookup(cache_data, clock + 1, frame[t].phone,
                                    OrEmpty(phone_data), OrEmpty(address_data), PyNone)
                  ELSE [ret |-> FALSE, data |-> cache_data]} :
          /\ frame' = [frame EXCEPT ![t].rp = phone_data, ![t].ra = address_data]
          /\ net' = [net EXCEPT
                        !.phone_calls = IF frame[t].phone = <<>> THEN @
                                        ELSE Append(@, frame[t].phone),
                        !.address_calls = Append(@, person.address)]
          /\ cache_data' = st.data
          /\ fs' = IF st.ret THEN Saved(st.data) ELSE fs
          /\ clock' = IF st.ret THEN clock + 1 ELSE clock
    /\ pc' = [pc EXCEPT ![t] = then]
    /\ UNCHANGED <<stats, hist, gui, merged>>

NextDialerAi ==
    \/ NavigateAi
    \/ UpdateAiResults
    \/ \E t \in Threads :
        \/ PerformCheck(t)
        \/ WorkerFetch(t, "perform_phone", "perform_publish")
        \/ PerformPublishAi(t)
        \/ \E ai_answer \in {"", "ok"} : AiRun(t, ai_answer)
        \/ PreloadCheck(t)
        \/ WorkerFetch(t, "preload_phone", "preload_return")
        \/ \E ai_answer \in {"", "ok"} : PreloadAi(t, ai_answer)

SpecDialerAi == InitDialerAi /\ [][NextDialerAi]_vars

(***************************************************************************)
(* SpecDialerClear: the dialer as in SpecDialer, with a user who may also  *)
(* choose 'Clear Cache' and confirm it.                                    *)
(***************************************************************************)
\* DialerGUI.clear_cache_confirm, the user answering yes: a CacheManager of
\* its own is constructed over the cache file and cleared; the one the lead
\* processor holds (self.lead_processor.cache_manager) is not touched.
\* With no entry in the file the dialog only says so.
\* The user is taken to choose it once a contact is shown, while no lookup
\* is in flight, and at most MaxClears times.
clear_cache_confirm ==
    /\ LET cache_manager == load_cache(fs, EmptyData).data
           total_entries == Cardinality(DOMAIN cache_manager.lookups)
       IN  /\ gui.cleared.count < MaxClears
           /\ gui.loads >= 1
           /\ Idle = Threads
           /\ total_entries > 0
           /\ clock' = clock + 1
           /\ fs' = Saved([lookups |-> <<>>, last_updated |-> clock',
                           shape |-> "document"])
           /\ gui' = [gui EXCEPT !.cleared = [keys |-> DOMAIN cache_manager.lookups,
                                              at |-> clock',
                                              count |-> gui.cleared.count + 1]]
    /\ UNCHANGED <<cache_data, stats, pc, frame, hist, net, merged>>

NextDialerClear ==
    \/ NextDialer
    \/ clear_cache_confirm

SpecDialerClear == Init /\ [][NextDialerClear]_vars

(***************************************************************************)
(* SpecResolve: resolves that run one after the other, each to completion, *)
(* by process_row or by perform_lookups, with requests to the services and *)
(* writes of the cache file that may fail.                                 *)
(***************************************************************************)
\* DialerGUI.perform_lookups with both auto settings on and no AI, run as
\* one unit.  An exception of store_lookup, or of the test of a cached
\* document that is no dict, is caught by the handler at the end of
\* perform_lookups, before self.current_results is assigned.
perform_lookups(idx, force_refresh, faults, save_faults) ==
    /\ clock < MaxClock
    /\ clock' = clock + 1
    /\ \E phone_outcome \in Outcomes(faults), address_outcome \in Outcomes(faults),
          save_outcome \in Outcomes(save_faults) :
        \E person \in {original_data[idx + 1]} :
        \E original_phone \in {clean_phone(person.phone)} :
        \E c \in {CacheCheck(original_phone)} :
        \E caught \in {~force_refresh /\ c.found /\ c.raises} :
        \E was_cached \in {~force_refresh /\ c.found /\ ~c.raises /\ c.has_data} :
        \E fetch \in {~was_cached /\ ~caught} :
        \E phone_data \in {IF caught THEN PyNone
                            ELSE IF was_cached THEN c.phone_data
                            ELSE phone_lookup(original_phone, phone_outcome)} :
        \E address_data \in {IF caught THEN PyNone
                              ELSE IF was_cached THEN c.address_data
                              ELSE address_lookup(person.address, person.city,
                                                  person.state, person.zip,
                                                  address_outcome).items[1]} :
        \E st \in {IF fetch /\ (HasData(phone_data, "owners")
                                  \/ HasData(address_data, "current_residents"))
                    THEN store_lookup(cache_data, clock + 1, original_phone,
                                      OrEmpty(phone_data), OrEmpty(address_data), PyNone)
                    ELSE [ret |-> FALSE, data |-> cache_data]} :
        \E results \in {process_lookup_data(person, phone_data, address_data)} :
        LET stored == IF st.ret THEN StoreReturn(save_outcome) ELSE Bool(FALSE)
            fr == [NoFrame EXCEPT !.op = "perform_lookups", !.phone = original_phone,
                                  !.rp = phone_data, !.ra = address_data,
                                  !.idx = idx, !.force = force_refresh,
                                  !.was_cached = was_cached, !.pre = Snapshot,
                                  !.saved = IF st.ret THEN save_outcome ELSE "none",
                                  !.results = IF stored = Raised \/ caught THEN <<>>
                                              ELSE results]
        IN  /\ stats' = IF force_refresh THEN stats ELSE c.stats
            /\ cache_data' = st.data
            /\ fs' = IF st.ret /\ save_outcome = "ok" THEN Saved(st.data) ELSE fs
            /\ net' = IF ~fetch THEN net
                      ELSE [net EXCEPT
                                !.phone_calls = IF original_phone = <<>> THEN @
                                                ELSE Append(@, original_phone),
                                !.address_calls = Append(@, person.address)]
            /\ gui' = IF stored = Raised \/ caught THEN gui
                      ELSE [gui EXCEPT !.current_results = results]
            /\ hist' = Push(hist, Call(fr, IF caught THEN Caught ELSE PyNone))
    /\ UNCHANGED <<pc, frame, merged>>

NextResolve ==
    /\ clock < MaxResolves
    /\ \E idx \in 0..(Len(original_data) - 1), force_refresh \in BOOLEAN :
        \/ process_row(idx, force_refresh, TRUE, TRUE)
        \/ perform_lookups(idx, force_refresh, TRUE, TRUE)

SpecResolve == Init /\ [][NextResolve]_vars

-----------------------------------------------------------------------------
(***************************************************************************)
(* SpecPhones: normalize_phone and clean_phone applied to phone strings.   *)
(* An input is <lead> <area digits> <separator> <line digits> <trail>.     *)
(***************************************************************************)
DigitRun(first, n) == [i \in 1..n |-> IF i = 1 THEN first ELSE "5"]

PhoneInputs ==
    { lead \o DigitRun(first, a) \o mid \o DigitRun("5", b) \o trail :
        lead \in {<<>>, <<"+">>, <<" ">>, <<"(">>, <<"+", "+">>},
        first \in {"1", "4"},
        a \in 0..MaxAreaDigits,
        mid \in {<<>>, <<"-">>, <<"+">>, <<" ">>},
        b \in 0..MaxLineDigits,
        trail \in {<<>>, <<" ">>, <<"x">>} }

InitPhones ==
    /\ cache_data = EmptyData
    /\ stats = ZeroStats
    /\ clock = 0
    /\ fs = Saved(cache_data)
    /\ pc = [t \in Threads |-> "idle"]
    /\ \E x \in PhoneInputs :
            frame = [t \in Threads |-> IF t = 1 THEN [NoFrame EXCEPT !.phone = x]
                                       ELSE NoFrame]
    /\ hist = <<>>
    /\ gui = GuiInit
    /\ net = NetInit
    /\ merged = MergedInit

\* normalized = cache_manager.normalize_phone(phone)
NormalizePhoneCall(t) ==
    /\ pc[t] = "idle"
    /\ frame' = [frame EXCEPT ![t].op = "normalize_phone",
                              ![t].key = normalize_phone(frame[t].phone)]
    /\ pc' = [pc EXCEPT ![t] = "done"]
    /\ UNCHANGED <<cache_data, stats, clock, fs, hist, gui, net, merged>>

\* original_phone = lead_processor.clean_phone(phone)
CleanPhoneCall(t) ==
    /\ pc[t] = "idle"
    /\ frame' = [frame EXCEPT ![t].op = "clean_phone",
                              ![t].key = clean_phone(frame[t].phone)]
    /\ pc' = [pc EXCEPT ![t] = "done"]
    /\ UNCHANGED <<cache_data, stats, clock, fs, hist, gui, net, merged>>

NextPhones ==
    \/ NormalizePhoneCall(1)
    \/ CleanPhoneCall(1)

SpecPhones == InitPhones /\ [][NextPhones]_vars

(***************************************************************************)
(* SpecAddress: parse_address applied to one address text, written in the  *)
(* form '<house number> <street>, <city>, <ST> <zip>' or put together from *)
(* arbitrary tokens.                                                       *)
(***************************************************************************)
HouseNumber(n) == [i \in 1..n |-> IF i = 1 THEN "9" ELSE "1"]

Streets == { <<"M", "a", "i", "n", " ", "S", "t">>, <<"O", "a", "k">>, <<"E", "l", "m", " ", "R", "d", ",", " ", "A", "p", "t", " ", "2">> }
Cities == { <<"A", "u", "s", "t", "i", "n">>, <<"S", "a", "n", " ", "A", "n", "t", "o", "n", "i", "o">>, <<"C", "o", "l", "u", "m", "b", "u", "s">> }
StateCodes == { <<"T", "X">>, <<"N", "Y">> }
Zips == { <<"7", "8", "7", "0", "1">>, <<"7", "8", "7", "0", "1", "-", "1", "2", "3", "4">> }

Forms ==
    { [house |-> HouseNumber(n), street |-> street, city |-> city,
       state |-> state, zip |-> zip] :
        n \in 1..MaxHouseDigits, street \in Streets, city \in Cities,
        state \in StateCodes, zip \in Zips }

FormText(form) ==
    form.house \o <<" ">> \o form.street \o <<",", " ">> \o form.city
        \o <<",", " ">> \o form.state \o <<" ">> \o form.zip

Tokens ==
    { <<" ">>, <<",">>, <<"#">>, <<"7">>, <<"1", "2", "3", "4", "5">>, <<"7", "8", "7", "0", "1", "-", "1", "2", "3", "4">>, <<"T", "X">>,
      <<"T", "e", "x", "a", "s">>, <<"M", "a", "i", "n">>, <<"S", "t">>, <<"A", "p", "t">>, <<"A", "u", "s", "t", "i", "n">>, <<"U", "S", "A">>, <<"u", "s">> }

RECURSIVE TokenTexts(_)
TokenTexts(n) ==
    IF n = 0 THEN {<<>>}
    ELSE TokenTexts(n - 1) \cup { s \o t : s \in TokenTexts(n - 1), t \in Tokens }

InitAddress ==
    /\ cache_data = EmptyData
    /\ stats = ZeroStats
    /\ clock = 0
    /\ fs = Saved(cache_data)
    /\ pc = [t \in Threads |-> "idle"]
    /\ \/ \E form \in Forms :
            frame = [t \in Threads |->
                        IF t = 1 THEN [NoFrame EXCEPT !.text = FormText(form),
                                                      !.form = form]
                        ELSE NoFrame]
       \/ \E text \in TokenTexts(MaxTokens) :
            frame = [t \in Threads |->
                        IF t = 1 THEN [NoFrame EXCEPT !.text = text] ELSE NoFrame]
    /\ hist = <<>>
    /\ gui = GuiInit
    /\ net = NetInit
    /\ merged = MergedInit

\* parsed = self.parse_address(street)
ParseAddressCall(t) ==
    /\ pc[t] = "idle"
    /\ frame' = [frame EXCEPT ![t].op = "parse_address",
                              ![t].parsed = parse_address(frame[t].text)]
    /\ pc' = [pc EXCEPT ![t] = "done"]
    /\ UNCHANGED <<cache_data, stats, clock, fs, hist, gui, net, merged>>

NextAddress == ParseAddressCall(1)

SpecAddress == InitAddress /\ [][NextAddress]_vars

(***************************************************************************)
(* SpecExtract: extract_people_from_data applied to a reverse-phone        *)
(* document with one owner, whose alternate_phones list holds up to        *)
(* MaxEntries entries and whose phones list holds at most one.             *)
(***************************************************************************)
\* the entries of a phone list: a number under one of the field names
PhoneEntries ==
    { PhoneEntry(key, number) : key \in Range(PhonesKeys), number \in {"111", "222"} }

\* the lists of at most n entries
EntryLists(n) == UNION { [1..k -> PhoneEntries] : k \in 0..n }

OwnerDoc(alternate_phones, phones) ==
    Dict(<<At("id", Str("Phone.3")),
           At("owners", List(<<
              Dict(<<At("name", Str("Ann Lee")),
                     At("alternate_phones", List(alternate_phones)),
                     At("phones", List(phones))>>)>>))>>)

InitExtract ==
    /\ cache_data = EmptyData
    /\ stats = ZeroStats
    /\ clock = 0
    /\ fs = Saved(cache_data)
    /\ pc = [t \in Threads |-> "idle"]
    /\ \E alternate_phones \in EntryLists(MaxEntries), phones \in EntryLists(1) :
            frame = [t \in Threads |->
                        IF t = 1
                        THEN [NoFrame EXCEPT !.rp = OwnerDoc(alternate_phones, phones)]
                        ELSE NoFrame]
    /\ hist = <<>>
    /\ gui = GuiInit
    /\ net = NetInit
    /\ merged = MergedInit

\* phone_people = self.extract_people_from_data(phone_data)
ExtractPeopleCall(t) ==
    /\ pc[t] = "idle"
    /\ frame' = [frame EXCEPT ![t].op = "extract_people_from_data",
                              ![t].results = extract_people_from_data(frame[t].rp)]
    /\ pc' = [pc EXCEPT ![t] = "done"]
    /\ UNCHANGED <<cache_data, stats, clock, fs, hist, gui, net, merged>>

NextExtract == ExtractPeopleCall(1)

SpecExtract == InitExtract /\ [][NextExtract]_vars

(***************************************************************************)
(* SpecNested: extract_people_from_data applied to nested documents: a     *)
(* map, named or not, with a map under 'spouse' and a list under           *)
(* 'residents' whose items are maps, maps with a map of their own, or      *)
(* lists of maps; or a list of such items at the top.                      *)
(***************************************************************************)
\* maps without children: three that carry a name and one that does not
LeafMaps ==
    { Dict(<<At("name", Str("Ann Lee"))>>),
      Dict(<<At("name", Str("Bob Ray")), At("age_range", Str("40-44"))>>),
      Dict(<<At("firstname", Str("Cy")), At("lastname", Str("Dow"))>>),
      Dict(<<At("id", Str("Location.7"))>>) }

\* a map with a map below it
DeepMaps ==
    { Dict(<<At("name", Str("Bob Ray")), At("spouse", Dict(<<At("name", Str("Ann Lee"))>>))>>),
      Dict(<<At("id", Str("Household.1")), At("head", Dict(<<At("name", Str("Cy Dow"))>>))>>) }

\* the items of a list: a map, or a list of one map
ListItems == LeafMaps \cup DeepMaps \cup { List(<<x>>) : x \in LeafMaps }

ItemLists == UNION { [1..k -> ListItems] : k \in 0..MaxEntries }

\* the fields of the top map: a name or none, a spouse or none, residents
TopMap(name, spouse, residents) ==
    Dict((IF name = "" THEN <<At("id", Str("Location.1"))>>
          ELSE <<At("name", Str(name))>>)
         \o (IF spouse = PyNone THEN <<>> ELSE <<At("spouse", spouse)>>)
         \o <<At("residents", List(residents))>>)

NestedDocs ==
    { TopMap(name, spouse, residents) :
        name \in {"", "Ann Lee"}, spouse \in {PyNone} \cup LeafMaps,
        residents \in ItemLists }
      \cup { List(items) : items \in ItemLists }

InitNested ==
    /\ cache_data = EmptyData
    /\ stats = ZeroStats
    /\ clock = 0
    /\ fs = Saved(cache_data)
    /\ pc = [t \in Threads |-> "idle"]
    /\ \E doc \in NestedDocs :
            frame = [t \in Threads |->
                        IF t = 1 THEN [NoFrame EXCEPT !.rp = doc] ELSE NoFrame]
    /\ hist = <<>>
    /\ gui = GuiInit
    /\ net = NetInit
    /\ merged = MergedInit

NextNested == ExtractPeopleCall(1)

SpecNested == InitNested /\ [][NextNested]_vars

(***************************************************************************)
(* SpecAi: a LeadProcessor constructed with or without an AIAssistant,     *)
(* and calls of address_lookup, correct_address and                        *)
(* filter_and_rank_contacts, at most MaxLookups of them.                   *)
(***************************************************************************)
\* `is_valid and has_residents` of a location response
LookupSucceeded(result) ==
    Truthy(DictGet(result, "is_valid")) /\ Truthy(DictGet(result, "current_residents"))

\* correction_info of a successful retry
CorrectionInfo(street, corrected) ==
    Dict(<<At("original", Dict(<<At("street_line_1", Str(street))>>)),
           At("corrected", Dict(<<At("street_line_1", DictGet(corrected, "street_line_1"))>>)),
           At("reasoning", DictGet(corrected, "correction_reasoning"))>>)

\* self.ai_correction_attempts with the count of one address set
SetAttempts(attempts, cache_key, n) ==
    [k \in DOMAIN attempts \cup {cache_key} |->
        IF k = cache_key THEN n ELSE attempts[k]]

\* the number of corrections of one address after which address_lookup
\* neither asks the assistant nor calls itself again
MaxAttempts == 2

\* a mutant of Exhausted: one more correction is allowed
Exhausted_OneMore(attempts) == attempts >= MaxAttempts + 1

\* address_lookup's tests `attempts >= 2` and, negated, `... < 2`
Exhausted(attempts) == attempts >= MaxAttempts

\* LeadProcessor.address_lookup with its AI correction, for an address whose
\* city, state and zip are given whenever its street is: the returned tuple
\* and the LeadProcessor afterwards.  outcome tells whether the first request
\* is answered, ai_answer what street the AI service proposes ("" stands for
\* no usable answer).  reentries counts the calls address_lookup made to
\* itself.
RECURSIVE AddressLookup(_, _, _, _, _)
AddressLookup(lp, street, enable_ai_correction, outcome, ai_answer) ==
    IF street = ""
    THEN [ret |-> Tuple(<<EmptyDict, PyNone>>), lp |-> lp, reentries |-> 0]
    ELSE
    LET lp1 == [lp EXCEPT !.address_calls = Append(@, street)]
        result == LocationService(street)
        cache_key == street
        known == cache_key \in DOMAIN lp.ai_correction_attempts
        lp2 == IF known THEN lp1
               ELSE [lp1 EXCEPT !.ai_correction_attempts = SetAttempts(@, cache_key, 0)]
        c == correct_address(lp.ai_assistant, ai_answer)
        lp3 == IF c.called THEN [lp2 EXCEPT !.ai_calls = Append(@, "correct_address")]
               ELSE lp2
        attempt == lp3.ai_correction_attempts[cache_key] + 1
        lp4 == [lp3 EXCEPT
                    !.ai_correction_attempts = SetAttempts(@, cache_key, attempt),
                    !.address_calls = Append(@, Text(DictGet(c.ret, "street_line_1")))]
        retry_result == LocationService(Text(DictGet(c.ret, "street_line_1")))
    IN  IF outcome # "ok"
        THEN [ret |-> Tuple(<<EmptyDict, PyNone>>), lp |-> lp1, reentries |-> 0]
        ELSE IF LookupSucceeded(result)
        THEN [ret |-> Tuple(<<result, PyNone>>), lp |-> lp1, reentries |-> 0]
        ELSE IF ~(enable_ai_correction /\ lp.ai_assistant.present)
        THEN [ret |-> Tuple(<<result, PyNone>>), lp |-> lp1, reentries |-> 0]
        ELSE IF known /\ Exhausted(lp.ai_correction_attempts[cache_key])
        THEN [ret |-> Tuple(<<result, PyNone>>), lp |-> lp1, reentries |-> 0]
        ELSE IF ~Truthy(c.ret)
        THEN [ret |-> Tuple(<<result, PyNone>>), lp |-> lp3, reentries |-> 0]
        ELSE IF LookupSucceeded(retry_result)
        THEN [ret |-> Tuple(<<retry_result, CorrectionInfo(street, c.ret)>>), lp |-> lp4, reentries |-> 0]
        ELSE IF ~Exhausted(attempt)
        THEN [AddressLookup(lp4, street, TRUE, outcome, ai_answer) EXCEPT
                    !.reentries = @ + 1]
        ELSE [ret |-> Tuple(<<result, PyNone>>), lp |-> lp4, reentries |-> 0]

\* the assistants a LeadProcessor may be given
Assistants ==
    {NoAssistant}
        \cup { AIAssistant(api_key, has_openai) :
                api_key \in {PyNone, Str(""), Str("sk-test-dummy-key")},
                has_openai \in BOOLEAN }

\* the streets looked up: of the three contacts, and none
LookupStreets == { original_data[i].address : i \in DOMAIN original_data } \cup {""}

\* the streets the AI service may propose, "" for no usable answer
AiAnswers == {"", "1 Main St", "9 Bad St"}

InitAi ==
    /\ cache_data = EmptyData
    /\ stats = ZeroStats
    /\ clock = 0
    /\ fs = Saved(cache_data)
    /\ pc = [t \in Threads |-> "idle"]
    /\ frame = [t \in Threads |-> NoFrame]
    /\ hist = <<>>
    /\ gui = GuiInit
    /\ \E assistant \in Assistants : net = [NetInit EXCEPT !.ai_assistant = assistant]
    /\ merged = MergedInit

AiFrame(op, street, enable_ai_correction, before, after) ==
    [NoFrame EXCEPT !.op = op, !.street = street, !.enable_ai = enable_ai_correction,
                    !.requests = Len(after.address_calls) - Len(before.address_calls),
                    !.ai_requests = Len(after.ai_calls) - Len(before.ai_calls)]

\* self.address_lookup(street, city, state, zip_code, enable_ai_correction)
AddressLookupCall(street, enable_ai_correction, outcome, ai_answer) ==
    /\ clock < MaxLookups
    /\ clock' = clock + 1
    /\ LET r == AddressLookup(net, street, enable_ai_correction, outcome, ai_answer)
       IN  /\ net' = r.lp
           /\ hist' = Push(hist, Call([AiFrame("address_lookup", street,
                                               enable_ai_correction, net, r.lp)
                                            EXCEPT !.count = r.reentries], r.ret))
    /\ UNCHANGED <<cache_data, stats, fs, pc, frame, gui, merged>>

\* a call of one of the assistant's two requests
AssistantCall(op, ai_answer) ==
    /\ clock < MaxLookups
    /\ clock' = clock + 1
    /\ net.ai_assistant.present
    /\ LET r == IF op = "correct_address"
                THEN correct_address(net.ai_assistant, ai_answer)
                ELSE filter_and_rank_contacts(net.ai_assistant, ai_answer)
           lp == IF r.called THEN [net EXCEPT !.ai_calls = Append(@, op)] ELSE net
       IN  /\ net' = lp
           /\ hist' = Push(hist, Call(AiFrame(op, "", FALSE, net, lp), r.ret))
    /\ UNCHANGED <<cache_data, stats, fs, pc, frame, gui, merged>>

NextAi ==
    \/ \E street \in LookupStreets, enable_ai_correction \in BOOLEAN,
          outcome \in Outcomes(TRUE), ai_answer \in AiAnswers :
            AddressLookupCall(street, enable_ai_correction, outcome, ai_answer)
    \/ \E op \in {"correct_address", "filter_and_rank_contacts"}, ai_answer \in AiAnswers :
            AssistantCall(op, ai_answer)

SpecAi == InitAi /\ [][NextAi]_vars

(***************************************************************************)
(* SpecAiConc: address_lookup runs on worker threads (perform_lookups'     *)
(* thread and preload_person_data's thread share one LeadProcessor), at    *)
(* most MaxLookups calls.  A call is a sequence of steps, each ending at   *)
(* a request to the address service or to the AI service, where the        *)
(* thread waits and the others run.  frame[t].count is the number of       *)
(* times the call has called itself, frame[t].ra the result of the first   *)
(* request, frame[t].ai the correction.  `+= 1` on the counter is taken    *)
(* as one step.                                                            *)
(***************************************************************************)

\* the return of the call on thread t
AlReturn(t, fr, ret) ==
    /\ hist' = Push(hist, Call(fr, ret))
    /\ pc' = [pc EXCEPT ![t] = "idle"]
    /\ frame' = [frame EXCEPT ![t] = NoFrame]

\* a worker thread calls self.lead_processor.address_lookup(...)
AlStart(street, enable_ai_correction) ==
    /\ clock < MaxLookups
    /\ clock' = clock + 1
    /\ street # ""
    /\ Idle # {}
    /\ pc' = [pc EXCEPT ![Lowest(Idle)] = "al_request"]
    /\ frame' = [frame EXCEPT ![Lowest(Idle)] =
                    [NoFrame EXCEPT !.op = "address_lookup", !.street = street,
                                    !.enable_ai = enable_ai_correction]]
    /\ UNCHANGED <<cache_data, stats, fs, hist, gui, net, merged>>

\* the request for the address as given, up to the test of
\* enable_ai_correction and self.ai_assistant
AlRequest(t, outcome) ==
    /\ pc[t] = "al_request"
    /\ \E result \in {LocationService(frame[t].street)} :
       \E fr \in {[frame[t] EXCEPT !.requests = @ + 1, !.ra = result]} :
          /\ net' = [net EXCEPT !.address_calls = Append(@, frame[t].street)]
          /\ IF outcome # "ok"
             THEN AlReturn(t, fr, Tuple(<<EmptyDict, PyNone>>))
             ELSE IF LookupSucceeded(result)
                     \/ ~(frame[t].enable_ai /\ net.ai_assistant.present)
             THEN AlReturn(t, fr, Tuple(<<result, PyNone>>))
             ELSE /\ pc' = [pc EXCEPT ![t] = "al_check"]
                  /\ frame' = [frame EXCEPT ![t] = fr]
                  /\ hist' = hist
    /\ UNCHANGED <<cache_data, stats, clock, fs, gui, merged>>

\* the test of the counter, which enters the address with 0 when absent
AlCheck(t) ==
    /\ pc[t] = "al_check"
    /\ \E cache_key \in {frame[t].street} :
          IF cache_key \in DOMAIN net.ai_correction_attempts
          THEN IF Exhausted(net.ai_correction_attempts[cache_key])
               THEN /\ AlReturn(t, frame[t], Tuple(<<frame[t].ra, PyNone>>))
                    /\ net' = net
               ELSE /\ pc' = [pc EXCEPT ![t] = "al_correct"]
                    /\ UNCHANGED <<frame, hist, net>>
          ELSE /\ net' = [net EXCEPT !.ai_correction_attempts =
                                        SetAttempts(@, cache_key, 0)]
               /\ pc' = [pc EXCEPT ![t] = "al_correct"]
               /\ UNCHANGED <<frame, hist>>
    /\ UNCHANGED <<cache_data, stats, clock, fs, gui, merged>>

\* self.ai_assistant.correct_address(...) and, for a correction, the
\* counter's increment
AlCorrect(t, ai_answer) ==
    /\ pc[t] = "al_correct"
    /\ \E cache_key \in {frame[t].street} :
       \E c \in {correct_address(net.ai_assistant, ai_answer)} :
       \E calls \in {IF c.called THEN Append(net.ai_calls, "correct_address")
                     ELSE net.ai_calls} :
       \E fr \in {[frame[t] EXCEPT !.ai_requests = @ + (IF c.called THEN 1 ELSE 0),
                                   !.ai = c.ret]} :
          IF ~Truthy(c.ret)
          THEN /\ net' = [net EXCEPT !.ai_calls = calls]
               /\ AlReturn(t, fr, Tuple(<<frame[t].ra, PyNone>>))
          ELSE /\ net' = [net EXCEPT
                            !.ai_calls = calls,
                            !.ai_correction_attempts =
                                SetAttempts(@, cache_key,
                                            net.ai_correction_attempts[cache_key] + 1)]
               /\ pc' = [pc EXCEPT ![t] = "al_retry"]
               /\ frame' = [frame EXCEPT ![t] = fr]
               /\ hist' = hist
    /\ UNCHANGED <<cache_data, stats, clock, fs, gui, merged>>

\* the request for the corrected address, and what follows it
AlRetry(t, outcome) ==
    /\ pc[t] = "al_retry"
    /\ \E cache_key \in {frame[t].street} :
       \E corrected \in {Text(DictGet(frame[t].ai, "street_line_1"))} :
       \E retry_result \in {LocationService(corrected)} :
       \E fr \in {[frame[t] EXCEPT !.requests = @ + 1]} :
          /\ net' = [net EXCEPT !.address_calls = Append(@, corrected)]
          /\ IF outcome # "ok"
             THEN AlReturn(t, fr, Tuple(<<EmptyDict, PyNone>>))
             ELSE IF LookupSucceeded(retry_result)
             THEN AlReturn(t, fr, Tuple(<<retry_result,
                                          CorrectionInfo(frame[t].street, frame[t].ai)>>))
             ELSE IF ~Exhausted(net.ai_correction_attempts[cache_key])
             THEN /\ pc' = [pc EXCEPT ![t] = "al_request"]
                  /\ frame' = [frame EXCEPT ![t] = [fr EXCEPT !.count = @ + 1]]
                  /\ hist' = hist
             ELSE AlReturn(t, fr, Tuple(<<frame[t].ra, PyNone>>))
    /\ UNCHANGED <<cache_data, stats, clock, fs, gui, merged>>

NextAiConc ==
    \/ \E street \in LookupStreets, enable_ai_correction \in BOOLEAN :
            AlStart(street, enable_ai_correction)
    \/ \E t \in Threads, outcome \in Outcomes(TRUE) : AlRequest(t, outcome)
    \/ \E t \in Threads : AlCheck(t)
    \/ \E t \in Threads, ai_answer \in AiAnswers : AlCorrect(t, ai_answer)
    \/ \E t \in Threads, outcome \in Outcomes(TRUE) : AlRetry(t, outcome)

SpecAiConc == InitAi /\ [][NextAiConc]_vars

(***************************************************************************)
(* SpecManual: a contact is displayed and the user presses the manual      *)
(* phone lookup and manual address lookup buttons, at most MaxManual       *)
(* times.  Each press starts a worker thread; the worker's steps and the   *)
(* callbacks it queues for the main thread are interleaved with the other  *)
(* workers' steps.  A request to a service may fail.                       *)
(***************************************************************************)
\* what perform_lookups left for the displayed contact, by the two settings
\* auto_phone_lookup and auto_address_lookup
Looked(idx, auto_phone, auto_address) ==
    LET person == original_data[idx + 1]
        original_phone == clean_phone(person.phone)
        phone_data == IF auto_phone THEN phone_lookup(original_phone, "ok") ELSE PyNone
        address_data == IF auto_address THEN LocationService(person.address) ELSE PyNone
    IN  [results |-> process_lookup_data(person, phone_data, address_data),
         data |-> IF HasData(phone_data, "owners")
                        \/ HasData(address_data, "current_residents")
                  THEN store_lookup(EmptyData, 0, original_phone, OrEmpty(phone_data),
                                    OrEmpty(address_data), PyNone).data
                  ELSE EmptyData]

InitManual ==
    /\ stats = ZeroStats
    /\ clock = 0
    /\ pc = [t \in Threads |-> "idle"]
    /\ frame = [t \in Threads |-> NoFrame]
    /\ hist = <<>>
    /\ net = NetInit
    /\ merged = MergedInit
    /\ \E idx \in 0..(Len(original_data) - 1), auto_phone \in BOOLEAN,
          auto_address \in BOOLEAN :
            /\ cache_data = Looked(idx, auto_phone, auto_address).data
            /\ fs = Saved(cache_data)
            /\ gui = [GuiInit EXCEPT
                        !.current_person_idx = idx,
                        !.current_results = Looked(idx, auto_phone, auto_address).results,
                        !.loads = 1]

\* the manual lookups started so far
Started == Len(hist) + Cardinality(Threads \ Idle)

\* a manual lookup button up to threading.Thread(target=do_lookup).start()
ManualStart(op, available) ==
    /\ Started < MaxManual
    /\ gui.current_person_idx < Len(original_data)
    /\ available
    /\ Idle # {}
    /\ pc' = [pc EXCEPT ![Lowest(Idle)] = "manual_api"]
    /\ frame' = [frame EXCEPT ![Lowest(Idle)] =
                    WorkerFrame(op, gui.current_person_idx, TRUE)]
    /\ UNCHANGED <<cache_data, stats, clock, fs, hist, gui, net, merged>>

\* DialerGUI.manual_phone_lookup
manual_phone_lookup ==
    ManualStart("manual_phone_lookup",
                clean_phone(original_data[gui.current_person_idx + 1].phone) # <<>>)

\* DialerGUI.manual_address_lookup
manual_address_lookup ==
    LET person == original_data[gui.current_person_idx + 1]
    IN  ManualStart("manual_address_lookup",
                    person.address # "" \/ person.city # "" \/ person.state # ""
                        \/ person.zip # "")

\* do_lookup: the request, which bypasses the cache.  The address worker
\* keeps the tuple address_lookup returns.
ManualApi(t, outcome) ==
    /\ pc[t] = "manual_api"
    /\ LET person == original_data[frame[t].idx + 1]
           r == AddressLookup(net, person.address, TRUE, outcome, "")
       IN  IF frame[t].op = "manual_phone_lookup"
           THEN /\ frame' = [frame EXCEPT ![t].rp = phone_lookup(frame[t].phone, outcome)]
                /\ net' = [net EXCEPT !.phone_calls = Append(@, frame[t].phone)]
           ELSE /\ frame' = [frame EXCEPT ![t].ra = r.ret]
                /\ net' = r.lp
    /\ pc' = [pc EXCEPT ![t] = "manual_cached"]
    /\ UNCHANGED <<cache_data, stats, clock, fs, hist, gui, merged>>

\* do_lookup: the other source's document is taken from the cache,
\* `cached[1] or {}` by the phone worker and `cached[0] or {}` by the
\* address worker
ManualCached(t) ==
    /\ pc[t] = "manual_cached"
    /\ LET r == get_cached_lookup(cache_data, stats, frame[t].phone)
           kept == IF ~Truthy(r.ret) THEN EmptyDict
                   ELSE IF frame[t].op = "manual_phone_lookup"
                        THEN OrEmpty(r.ret.items[2])
                        ELSE OrEmpty(r.ret.items[1])
       IN  /\ stats' = r.stats
           /\ frame' = IF frame[t].op = "manual_phone_lookup"
                       THEN [frame EXCEPT ![t].ra = kept]
                       ELSE [frame EXCEPT ![t].rp = kept]
    /\ pc' = [pc EXCEPT ![t] = "manual_after"]
    /\ UNCHANGED <<cache_data, clock, fs, hist, gui, net, merged>>

\* do_lookup: self.root.after(0, lambda: self.accumulate_..._results(...))
ManualAfter(t) ==
    /\ pc[t] = "manual_after"
    /\ gui' = [gui EXCEPT !.after = Append(@,
                    [op |-> frame[t].op, idx |-> frame[t].idx,
                     data |-> IF frame[t].op = "manual_phone_lookup"
                              THEN frame[t].rp ELSE frame[t].ra])]
    /\ pc' = [pc EXCEPT ![t] = "manual_store"]
    /\ UNCHANGED <<cache_data, stats, clock, fs, hist, frame, net, merged>>

\* do_lookup: cache_manager.store_lookup(original_phone, phone_data,
\* address_data), and the thread ends
ManualStore(t) ==
    /\ pc[t] = "manual_store"
    /\ LET r == store_lookup(cache_data, clock + 1, frame[t].phone,
                             frame[t].rp, frame[t].ra, PyNone)
       IN  /\ cache_data' = r.data
           /\ fs' = IF r.ret THEN Saved(r.data) ELSE fs
           /\ clock' = IF r.ret THEN clock + 1 ELSE clock
    /\ hist' = Push(hist, Call(frame[t], PyNone))
    /\ pc' = [pc EXCEPT ![t] = "idle"]
    /\ frame' = [frame EXCEPT ![t] = NoFrame]
    /\ UNCHANGED <<stats, gui, net, merged>>

\* the main loop runs the oldest queued callback
RunAfter ==
    /\ gui.after # <<>>
    /\ LET cb == Head(gui.after)
           original_person == original_data[cb.idx + 1]
       IN  gui' = [gui EXCEPT
                    !.after = Tail(@),
                    !.current_results =
                        IF cb.op = "manual_phone_lookup"
                        THEN accumulate_phone_results(@, cb.data, original_person)
                        ELSE accumulate_address_results(@, cb.data, original_person)]
    /\ UNCHANGED <<cache_data, stats, clock, fs, pc, frame, hist, net, merged>>

NextManual ==
    \/ manual_phone_lookup
    \/ manual_address_lookup
    \/ RunAfter
    \/ \E t \in Threads :
        \/ \E outcome \in Outcomes(TRUE) : ManualApi(t, outcome)
        \/ ManualCached(t)
        \/ ManualAfter(t)
        \/ ManualStore(t)

SpecManual == InitManual /\ [][NextManual]_vars

-----------------------------------------------------------------------------
(***************************************************************************)
(* Claims about the CacheManager (SpecCache, SpecConc).                    *)
(***************************************************************************)
\* the last call has just returned to the single caller
Returned(op) ==
    pc[1] = "done" /\ hist # <<>> /\ Last(hist).op = op

\* a store_lookup(x, A, B) without analysis, A and B not both empty, directly
\* followed by a get_cached_lookup(y) with the same non-empty normalized phone
StoreThenGet ==
    /\ Returned("get_cached_lookup")
    /\ Len(hist) >= 2
    /\ LET put == hist[Len(hist) - 1]
           get == Last(hist)
       IN  /\ put.op = "store_lookup"
           /\ put.ai = PyNone
           /\ Truthy(put.rp) \/ Truthy(put.ra)
           /\ normalize_phone(put.phone) # <<>>
           /\ normalize_phone(put.phone) = normalize_phone(get.phone)

EntriesFor(phone) ==
    {k \in DOMAIN cache_data.lookups : normalize_phone(k) = normalize_phone(phone)}

\* C2 as stated: store_lookup(x, A, B) followed by get_cached_lookup(y), x and
\* y having the same non-empty normalized form and A, B not both empty,
\* returns (A, B, None), and the cache holds exactly one entry for the phone.
C2_RoundTripNone ==
    StoreThenGet =>
        /\ Last(hist).ret = Tuple(<<hist[Len(hist) - 1].rp, hist[Len(hist) - 1].ra, PyNone>>)
        /\ Cardinality(EntriesFor(Last(hist).phone)) = 1

\* C2 as amended: the round trip returns (A, B, {}): the analysis of an entry
\* stored without one reads back as an empty dict, not as None; the cache
\* holds exactly one entry for the normalized phone.
C2_RoundTripEmptyAnalysis ==
    StoreThenGet =>
        /\ Last(hist).ret = Tuple(<<hist[Len(hist) - 1].rp, hist[Len(hist) - 1].ra, EmptyDict>>)
        /\ Cardinality(EntriesFor(Last(hist).phone)) = 1

\* a round trip through two different spellings of the same phone
C2_Witness ==
    /\ StoreThenGet
    /\ hist[Len(hist) - 1].phone # Last(hist).phone
    /\ Last(hist).ret # PyNone

\* C3: store_lookup with two empty documents returns False and leaves the
\* in-memory entries and the cache file as they were before the call,
\* whether or not the phone already has an entry.
C3_EmptyStoreNoop ==
    (Returned("store_lookup") /\ ~Truthy(Last(hist).rp) /\ ~Truthy(Last(hist).ra))
        => /\ Last(hist).ret = Bool(FALSE)
           /\ cache_data.lookups = Last(hist).pre.lookups
           /\ CanonFile(fs) = Last(hist).pre.file

\* an empty store on a phone that has an entry
C3_Witness ==
    /\ Returned("store_lookup")
    /\ ~Truthy(Last(hist).rp) /\ ~Truthy(Last(hist).ra)
    /\ normalize_phone(Last(hist).phone) \in DOMAIN cache_data.lookups

\* C5: with a single writer, at every step of save_cache, write errors and a
\* crash at any step included, the file under the canonical name is absent or
\* holds a complete document; partial content exists only under the .tmp name.
C5_CanonNeverPartial ==
    CanonFile(fs).exists => CanonFile(fs).complete

\* the process died while the temp file was half written
C5_Witness ==
    /\ pc[1] = "crashed"
    /\ TmpFile(fs).exists /\ ~TmpFile(fs).complete
    /\ CanonFile(fs).exists

\* C6 as stated: when two resolves for different phones store non-empty
\* results concurrently on the same CacheManager, then after both completed
\* the in-memory cache and the cache file each hold both entries and neither
\* store failed.
C6_ConcurrentStoresBothPersist ==
    (pc[1] = "done" /\ pc[2] = "done" /\ Len(hist) = 2)
        => \A i \in 1..2 :
            /\ hist[i].ret = Bool(TRUE)
            /\ normalize_phone(hist[i].phone) \in DOMAIN cache_data.lookups
            /\ CanonFile(fs).exists /\ CanonFile(fs).complete
            /\ normalize_phone(hist[i].phone) \in DOMAIN CanonFile(fs).data.lookups

-----------------------------------------------------------------------------
(***************************************************************************)
(* Claims about the resolve paths (SpecDialer, SpecBulk).                  *)
(***************************************************************************)
\* how often the phone service was called for a phone
PhoneCalls(phone) ==
    Cardinality({i \in DOMAIN net.phone_calls : net.phone_calls[i] = phone})

SheetPhones == {clean_phone(original_data[i].phone) : i \in DOMAIN original_data}

\* C1: for a contact whose phone lookup succeeds (returns at least one owner)
\* the phone service is called at most once for that phone, across any
\* interleaving of load_person, preload_person_data and perform_lookups.
C1_PhoneQueriedAtMostOnce ==
    \A phone \in SheetPhones :
        HasData(PhoneService(phone), "owners") => PhoneCalls(phone) <= 1

ResolveOps == {"process_row", "perform_lookups", "preload_person_data"}

\* the document a collaborator returned (address_lookup returns it in a tuple)
Document(x) == IF x.t = "tuple" THEN x.items[1] ELSE x

\* a resolve that called the collaborators and got two empty documents
EmptyResolve(c) ==
    /\ c.op \in ResolveOps
    /\ ~c.was_cached
    /\ c.ret # Caught
    /\ ~Truthy(Document(c.rp))
    /\ ~Truthy(Document(c.ra))

\* C4: in every resolve path, when both collaborators return empty documents
\* no cache entry is created for the phone, and the next non-forced resolve
\* of the same phone calls the collaborators again.
C4_EmptyResultsNeverCached ==
    \A i \in DOMAIN hist :
        EmptyResolve(hist[i]) =>
            /\ i = Len(hist) =>
                    (normalize_phone(hist[i].phone) \in DOMAIN cache_data.lookups
                        => normalize_phone(hist[i].phone) \in DOMAIN hist[i].pre.lookups)
            /\ (/\ i < Len(hist)
                /\ hist[i + 1].op \in ResolveOps
                /\ hist[i + 1].phone = hist[i].phone
                /\ ~hist[i + 1].force)
                => ~hist[i + 1].was_cached

\* C7: every result in current_results belongs to the contact displayed: its
\* original phone is the normalized phone of original_data[current_person_idx].
C7_ResultsOfCurrentContact ==
    \A i \in DOMAIN gui.current_results :
        gui.current_results[i].original_phone =
            clean_phone(original_data[gui.current_person_idx + 1].phone)

-----------------------------------------------------------------------------
(***************************************************************************)
(* Claims about the phone normalizers (SpecPhones).                        *)
(***************************************************************************)
Normalized(op) == pc[1] = "done" /\ frame[1].op = op

\* C14: normalization is idempotent: normalize_phone(normalize_phone(x)) =
\* normalize_phone(x) and clean_phone(clean_phone(x)) = clean_phone(x).
C14_NormalizeIdempotent ==
    /\ Normalized("normalize_phone")
            => normalize_phone(frame[1].key) = frame[1].key
    /\ Normalized("clean_phone")
            => clean_phone(frame[1].key) = frame[1].key

\* a ten-digit number written with punctuation has been given its "+1"
C14_Witness ==
    /\ Normalized("normalize_phone")
    /\ Len(StripNonPhone(frame[1].phone)) = 10
    /\ Len(frame[1].phone) > 10
    /\ frame[1].key = <<"+", "1">> \o StripNonPhone(frame[1].phone)

\* C15: the output of normalize_phone is empty or consists of digits with at
\* most one '+', which can only be its first character.
C15_PlusOnlyLeading ==
    Normalized("normalize_phone") =>
        \A i \in DOMAIN frame[1].key :
            \/ frame[1].key[i] \in Digits
            \/ i = 1 /\ frame[1].key[i] = "+"

-----------------------------------------------------------------------------
(***************************************************************************)
(* Claims about the merge passes (SpecMerge).                              *)
(***************************************************************************)
\* the person records the last pass extracted
PeopleOfLastPass ==
    PeopleOf(merged.last.phone_data) \o PeopleOf(merged.last.address_data)

IsSentinelOnly(results) ==
    Len(results) = 1 /\ results[1].new_name = NoResultsFound

\* C8: the result list never holds the 'NO RESULTS FOUND' sentinel together
\* with another entry, and a pass that yields at least one person record on a
\* sentinel-only list leaves no sentinel.
C8_SentinelAlone ==
    LET r == gui.current_results
    IN  /\ \A i \in DOMAIN r : r[i].new_name = NoResultsFound => Len(r) = 1
        /\ (merged.last.kind # "none" /\ IsSentinelOnly(merged.last.before)
                /\ PeopleOfLastPass # <<>>)
            => \A i \in DOMAIN r : r[i].new_name # NoResultsFound

\* an address pass with residents has just run on a sentinel-only list
C8_Witness ==
    /\ merged.last.kind = "address"
    /\ IsSentinelOnly(merged.last.before)
    /\ PeopleOfLastPass # <<>>

\* process_lookup_data has just run on two documents without person records
ZeroRecordsPass ==
    /\ merged.last.kind = "process"
    /\ extract_people_from_data(merged.last.phone_data) = <<>>
    /\ extract_people_from_data(merged.last.address_data) = <<>>

\* the address document carries a non-empty current_residents list
HasResidents(doc) ==
    /\ doc.t = "map"
    /\ \E i \in DOMAIN doc.items :
            doc.items[i].k = "current_residents" /\ doc.items[i].items # <<>>

\* C9 as stated: for documents from which the extractor yields zero person
\* records, process_lookup_data returns exactly one result with the sentinel
\* name, empty phones and addresses, and addressLookupFailed = true.
C9_ZeroRecordsFlagTrue ==
    ZeroRecordsPass =>
        /\ Len(gui.current_results) = 1
        /\ gui.current_results[1].new_name = NoResultsFound
        /\ gui.current_results[1].new_phones = <<>>
        /\ gui.current_results[1].new_addresses = <<>>
        /\ gui.current_results[1].address_lookup_failed = TRUE

\* C9 as amended: ... returns exactly one result with the sentinel name and
\* empty phones and addresses; its addressLookupFailed is true exactly when
\* the address document is empty or has no non-empty current_residents list
\* (residents without a usable name leave it false).
C9_ZeroRecordsSentinel ==
    ZeroRecordsPass =>
        /\ Len(gui.current_results) = 1
        /\ gui.current_results[1].new_name = NoResultsFound
        /\ gui.current_results[1].new_phones = <<>>
        /\ gui.current_results[1].new_addresses = <<>>
        /\ gui.current_results[1].address_lookup_failed
                = ~HasResidents(merged.last.address_data)

\* zero person records although the address source returned a resident
C9_Witness ==
    /\ ZeroRecordsPass
    /\ HasResidents(merged.last.address_data)
    /\ IsSentinelOnly(gui.current_results)

\* the values of a sequence, each at its first occurrence
FirstOccurrences(seq) ==
    LET keep == {i \in DOMAIN seq : \A j \in 1..(i - 1) : seq[j] # seq[i]}
        RECURSIVE build(_)
        build(i) == IF i > Len(seq) THEN <<>>
                    ELSE (IF i \in keep THEN <<seq[i]>> ELSE <<>>) \o build(i + 1)
    IN  build(1)

RECURSIVE AllPhonesOf(_, _)
AllPhonesOf(people, name) ==
    IF people = <<>> THEN <<>>
    ELSE (IF Head(people).name = name THEN Head(people).phones ELSE <<>>)
         \o AllPhonesOf(Tail(people), name)

RECURSIVE AllAddressesOf(_, _)
AllAddressesOf(people, name) ==
    IF people = <<>> THEN <<>>
    ELSE (IF Head(people).name = name THEN Head(people).addresses ELSE <<>>)
         \o AllAddressesOf(Tail(people), name)

\* C10: after any sequence of merge passes each result's phone list (and
\* address list) holds every phone (address) of every merged person record
\* with that exact name exactly once, in first-seen order, and every merged
\* record has its result.
C10_UnionInFirstSeenOrder ==
    LET r == gui.current_results
    IN  /\ \A i \in DOMAIN r :
            r[i].new_name # NoResultsFound =>
                /\ r[i].new_phones =
                        FirstOccurrences(AllPhonesOf(merged.people, r[i].new_name))
                /\ r[i].new_addresses =
                        FirstOccurrences(AllAddressesOf(merged.people, r[i].new_name))
        /\ \A j \in DOMAIN merged.people :
            \E i \in DOMAIN r : r[i].new_name = merged.people[j].name

\* an accumulate pass has just merged a record into an existing result that
\* already held one of its phones and gained another
C10_Witness ==
    /\ merged.last.kind \in {"phone", "address"}
    /\ \E i \in DOMAIN merged.last.before :
        /\ i \in DOMAIN gui.current_results
        /\ merged.last.before[i].new_name = gui.current_results[i].new_name
        /\ Len(gui.current_results[i].new_phones)
                > Len(merged.last.before[i].new_phones)
        /\ \E j \in DOMAIN PeopleOfLastPass :
            /\ PeopleOfLastPass[j].name = gui.current_results[i].new_name
            /\ Range(PeopleOfLastPass[j].phones)
                    \cap Range(merged.last.before[i].new_phones) # {}

-----------------------------------------------------------------------------
(***************************************************************************)
(* Claims about clearing and reloading the cache (SpecOps, SpecLoad).      *)
(***************************************************************************)
\* a clear_cache directly followed by a get_cached_lookup of a phone that was
\* cached when the clear_cache was called
ClearThenGet ==
    /\ Returned("get_cached_lookup")
    /\ Len(hist) >= 2
    /\ hist[Len(hist) - 1].op = "clear_cache"
    /\ normalize_phone(Last(hist).phone) \in DOMAIN hist[Len(hist) - 1].pre.lookups

\* C12: clear_cache returns the number of entries held just before the call
\* and leaves no entry, so that a get_cached_lookup that follows it returns
\* nothing for a phone that was cached.
C12_ClearReturnsCountAndEmpties ==
    /\ Returned("clear_cache") =>
            /\ Last(hist).count = Cardinality(DOMAIN Last(hist).pre.lookups)
            /\ cache_data.lookups = <<>>
    /\ ClearThenGet => Last(hist).ret = PyNone

C12_Witness ==
    /\ ClearThenGet
    /\ hist[Len(hist) - 1].count >= 1

\* the last call made was a mutating one and returned success
LastMutationSucceeded ==
    /\ pc[1] = "done"
    /\ hist # <<>>
    /\ Last(hist).op \in {"store_lookup", "update_ai_analysis", "clear_cache"}
    /\ Last(hist).ret = Bool(TRUE)

\* the entries a new CacheManager over the same file holds
Reloaded == load_cache(fs, EmptyData).data.lookups

\* C13 as stated: whenever the last mutating call returned success, a new
\* CacheManager over the same file holds exactly the entries of the first
\* one's in-memory cache.
C13_ReloadEqualsMemory ==
    LastMutationSucceeded => Reloaded = cache_data.lookups

\* C13 amended: whenever the last mutating call returned success, a new
\* CacheManager over the same file holds the JSON encoding of the entries of
\* the first one's in-memory cache: the same keys, timestamps and documents,
\* a document stored as a tuple being read back as a list.
C13_ReloadEqualsJson ==
    LastMutationSucceeded => Reloaded = JsonOfData(cache_data).lookups

C13_Witness ==
    /\ LastMutationSucceeded
    /\ Last(hist).op = "store_lookup"
    /\ Last(hist).ra.t = "tuple"
    /\ Cardinality(DOMAIN cache_data.lookups) >= 2

\* the file the constructor found was missing, unparseable, or lacked the
\* expected top-level shape
BadFile(file) ==
    \/ ~file.exists
    \/ ~file.complete
    \/ file.data.shape # "document"

\* C18: constructing a CacheManager over a file that is missing, unparseable
\* or lacks the expected top-level shape yields an empty cache persisted to
\* the file, and the get_cached_lookup and store_lookup calls that follow do
\* not raise.
C18_BadFileYieldsEmptyCache ==
    \A i \in DOMAIN hist :
        (hist[i].op = "__init__" /\ BadFile(hist[i].pre.file)) =>
            /\ (i = Len(hist) /\ pc[1] = "done") =>
                    /\ cache_data = [EmptyData EXCEPT !.last_updated = cache_data.last_updated]
                    /\ CanonFile(fs).exists
                    /\ CanonFile(fs).complete
                    /\ CanonFile(fs).data = cache_data
            /\ \A j \in DOMAIN hist : j > i => hist[j].ret # Raised

\* the phone of the contact load_person has just been called for
LoadedKey == normalize_phone(clean_phone(original_data[gui.current_person_idx + 1].phone))

\* C11: after the user has confirmed 'Clear Cache' and the clear succeeded,
\* no load_person is served from the cache by an entry that was cached
\* before the clear, and no such entry is in the cache file again.
C11_ClearedStaysCleared ==
    [][gui.cleared.at > 0 =>
        /\ (gui'.loads # gui.loads /\ stats'.cache_hits # stats.cache_hits) =>
                cache_data.lookups[LoadedKey'].timestamp > gui.cleared.at
        /\ \A k \in DOMAIN CanonFile(fs').data.lookups :
                CanonFile(fs').data.lookups[k].timestamp > gui.cleared.at]_vars

-----------------------------------------------------------------------------
(***************************************************************************)
(* Claims about failures during a resolve (SpecResolve).                   *)
(***************************************************************************)
\* two resolves of the same kind for the same contact that fetched the same
\* documents, the first with a failed write of the cache file, the second
\* with a successful one
FailedAndSavedResolve(a, b) ==
    /\ a.op \in {"process_row", "perform_lookups"}
    /\ a.op = b.op
    /\ a.idx = b.idx
    /\ a.rp = b.rp
    /\ a.ra = b.ra
    /\ a.saved = "error"
    /\ b.saved = "ok"

\* C19: a resolve during which the write of the cache file fails raises no
\* exception and produces the same results as a resolve of the same contact
\* with the same documents whose write succeeds.
C19_SaveFailureKeepsResults ==
    \A i \in DOMAIN hist :
        /\ (hist[i].op \in ResolveOps /\ hist[i].saved = "error") =>
                /\ hist[i].ret # Raised
                /\ hist[i].results # <<>>
        /\ \A j \in DOMAIN hist :
                FailedAndSavedResolve(hist[i], hist[j]) =>
                    hist[i].results = hist[j].results

C19_Witness ==
    /\ Len(hist) = 2
    /\ FailedAndSavedResolve(hist[1], hist[2])
    /\ hist[1].op = "perform_lookups"
    /\ hist[1].results[1].new_name # NoResultsFound
    /\ gui.current_results = hist[1].results

\* the names of the dicts under the given key of a document
NamesUnder(doc, key) ==
    { Text(DictGet(x, "name")) : x \in {y \in Range(ListUnder(doc, key)) : IsDict(y)} }
        \ {""}

ResultNames(c) == { c.results[i].new_name : i \in DOMAIN c.results }

\* C20: in a resolve that calls the collaborators no exception reaches the
\* caller; when the phone lookup fails, the residents the address lookup
\* returns appear in the results, and when the address lookup fails, the
\* owners the phone lookup returns appear in the results.
C20_FailureOfOneKeepsOther ==
    \A i \in DOMAIN hist :
        (/\ hist[i].op \in {"process_row", "perform_lookups"}
         /\ ~hist[i].was_cached
         /\ hist[i].ret # Caught) =>
            /\ hist[i].ret # Raised
            /\ ~Truthy(hist[i].rp) =>
                    NamesUnder(Document(hist[i].ra), "current_residents")
                        \subseteq ResultNames(hist[i])
            /\ ~Truthy(Document(hist[i].ra)) =>
                    NamesUnder(hist[i].rp, "owners") \subseteq ResultNames(hist[i])

-----------------------------------------------------------------------------
(***************************************************************************)
(* Claims about the address parser (SpecAddress).                          *)
(***************************************************************************)
Parsed == pc[1] = "done" /\ frame[1].op = "parse_address"

\* C16: for a text of the form '<house number> <street>, <city>, <ST> <zip>'
\* parse_address returns the trailing zip, the state code, the city segment
\* and, as street, everything before the city segment.
C16_FormIsParsed ==
    (Parsed /\ frame[1].form # NoForm) =>
        /\ ~frame[1].parsed.raised
        /\ frame[1].parsed.zip = frame[1].form.zip
        /\ frame[1].parsed.state = frame[1].form.state
        /\ frame[1].parsed.city = frame[1].form.city
        /\ frame[1].parsed.street = frame[1].form.house \o <<" ">> \o frame[1].form.street

\* a zip token: five digits, or five digits, '-' and four digits, that stand
\* as a word of their own
HasZipToken(s) ==
    \E i \in 1..Len(s), n \in {5, 10} :
        /\ i + n - 1 <= Len(s)
        /\ \A k \in i..(i + n - 1) :
                IF k = i + 5 THEN s[k] = "-" ELSE s[k] \in Digits
        /\ i = 1 \/ ~IsWordChar(s[i - 1])
        /\ i + n - 1 = Len(s) \/ ~IsWordChar(s[i + n])

\* the trailing country tokens of a text: the places where it ends in a
\* country code that stands as a word of its own
CountryTokenStarts(s) ==
    { Len(s) - Len(CountryCodes[j]) + 1 :
        j \in { x \in DOMAIN CountryCodes :
                    /\ EndsWith(Lower(s), CountryCodes[x])
                    /\ \/ Len(s) = Len(CountryCodes[x])
                       \/ ~IsWordChar(s[Len(s) - Len(CountryCodes[x])]) } }

\* the text trimmed, without its trailing country token (and the blanks and
\* the comma in front of it), its comma spacing normalised
Remainder(text) ==
    LET s == Strip(text)
        starts == CountryTokenStarts(s)
    IN  NormalizeCommas(
            IF starts = {} THEN s
            ELSE SubSeq(s, 1, CountryMatchStart(s,
                        CHOOSE k \in starts : \A j \in starts : k <= j) - 1))

\* C17: parse_address raises for no text and returns the four fields; when
\* the text holds no zip token, city, state and zip are empty and street is
\* the remaining text (the trimmed text without a trailing country token).
C17_NeverRaises ==
    Parsed =>
        /\ ~frame[1].parsed.raised
        /\ ~HasZipToken(Remainder(frame[1].text)) =>
                /\ frame[1].parsed.street = Remainder(frame[1].text)
                /\ frame[1].parsed.city = <<>>
                /\ frame[1].parsed.state = <<>>
                /\ frame[1].parsed.zip = <<>>

\* what does hold for every text: no exception, and without a zip token in
\* the text parse_address searches, empty city, state and zip
NoExceptionAndEmptyFields ==
    Parsed =>
        /\ ~frame[1].parsed.raised
        /\ ~HasZipToken(NormalizeCommas(RemoveCountry(Strip(frame[1].text)))) =>
                /\ frame[1].parsed.city = <<>>
                /\ frame[1].parsed.state = <<>>
                /\ frame[1].parsed.zip = <<>>
-----------------------------------------------------------------------------
(***************************************************************************)
(* Claims about what a resolve reads from and writes to the cache          *)
(* (SpecResolve).                                                          *)
(***************************************************************************)
\* the entry the cache held for the phone when the call started
EntryBefore(c) == c.pre.lookups[normalize_phone(c.phone)]

\* the cache held an entry for the phone whose documents hold no owner and
\* no current resident
NoRecordsCached(c) ==
    /\ normalize_phone(c.phone) \in DOMAIN c.pre.lookups
    /\ ~HasData(Document(EntryBefore(c).reverse_phone), "owners")
    /\ ~HasData(Document(EntryBefore(c).reverse_address), "current_residents")

\* C22: in process_row and in perform_lookups, a non-forced resolve for a
\* phone whose cache entry holds no owner and no current resident calls the
\* collaborators instead of using the cached documents.
C22_NoRecordsHitRefetches ==
    \A i \in DOMAIN hist :
        (/\ hist[i].op \in {"process_row", "perform_lookups"}
         /\ ~hist[i].force
         /\ NoRecordsCached(hist[i]))
            => (~hist[i].was_cached /\ hist[i].ret # Caught)

\* the resolve that has just returned called the collaborators and got at
\* least one non-empty document
FetchedSomething(c) ==
    /\ c.op \in {"process_row", "perform_lookups"}
    /\ ~c.was_cached
    /\ c.ret \notin {Raised, Caught}
    /\ Truthy(Document(c.rp)) \/ Truthy(Document(c.ra))

\* C23: when a resolve that called the collaborators returns and at least
\* one returned document is non-empty, the cache entry of the phone holds the
\* phone document and the address document just returned.
C23_FetchedIsCached ==
    (hist # <<>> /\ FetchedSomething(Last(hist))) =>
        LET c == Last(hist)
            key == normalize_phone(c.phone)
        IN  /\ key \in DOMAIN cache_data.lookups
            /\ cache_data.lookups[key].reverse_phone = Document(c.rp)
            /\ cache_data.lookups[key].reverse_address = Document(c.ra)

\* the named residents of an address document
NamedResidents(doc) ==
    { x \in Range(ListUnder(doc, "current_residents")) :
        IsDict(x) /\ Text(DictGet(x, "name")) # "" }

\* the phones a resident carries in its phones list
ResidentPhones(resident) ==
    Range(CollectPhones(ListUnder(resident, "phones"), RowPhoneKeys, TRUE, <<>>))

\* C24: when process_row misses the cache and the address service returns a
\* document with named current residents, the results hold a row for each of
\* them that carries the resident's phones, and address_lookup_failed is
\* false.
C24_BulkResidentsInResults ==
    \A i \in DOMAIN hist :
        (/\ hist[i].op = "process_row"
         /\ ~hist[i].was_cached
         /\ hist[i].ret # Raised
         /\ NamedResidents(Document(hist[i].ra)) # {})
            => /\ hist[i].ret = Bool(FALSE)
               /\ \A x \in NamedResidents(Document(hist[i].ra)) :
                    \E k \in DOMAIN hist[i].results :
                        /\ hist[i].results[k].new_name = Text(DictGet(x, "name"))
                        /\ ResidentPhones(x) \subseteq Range(hist[i].results[k].new_phones)

-----------------------------------------------------------------------------
(***************************************************************************)
(* Claims about the address_lookup_failed flag and the age of merged       *)
(* results (SpecMerge).                                                    *)
(***************************************************************************)
\* C27: a result has address_lookup_failed = true only if the address source
\* was queried for the contact and returned zero resident records.
C27_FlagOnlyAfterAddressMiss ==
    \A i \in DOMAIN gui.current_results :
        gui.current_results[i].address_lookup_failed => merged.address_missed

\* C28: after an accumulate_address_results pass whose document yields at
\* least one person record no result has address_lookup_failed = true.
C28_AddressPassClearsFlags ==
    (merged.last.kind = "address" /\ PeopleOf(merged.last.address_data) # <<>>) =>
        \A i \in DOMAIN gui.current_results :
            ~gui.current_results[i].address_lookup_failed

\* the ages of the merged records of a name, in the order they were merged
RECURSIVE AgesOf(_, _)
AgesOf(people, name) ==
    IF people = <<>> THEN <<>>
    ELSE (IF Head(people).name = name THEN <<Head(people).age>> ELSE <<>>)
         \o AgesOf(Tail(people), name)

\* the age a result has when every merge keeps a non-empty age and fills an
\* empty one: the first non-empty age merged, "" if there is none
FirstAge(ages) ==
    IF \A i \in DOMAIN ages : ages[i] = "" THEN ""
    ELSE ages[CHOOSE i \in DOMAIN ages :
                ages[i] # "" /\ \A j \in 1..(i - 1) : ages[j] = ""]

\* C29: when person records are merged into a result of the same exact name,
\* by process_lookup_data or by an accumulate pass, the age of the result is
\* kept if it is non-empty and set to the incoming age if it is empty.
C29_AgeFilledWhenEmpty ==
    \A i \in DOMAIN gui.current_results :
        LET r == gui.current_results[i]
            ages == AgesOf(merged.people, r.new_name)
        IN  Len(ages) >= 2 => r.age = FirstAge(ages)

-----------------------------------------------------------------------------
(***************************************************************************)
(* Claims about the person extractor (SpecExtract).                        *)
(***************************************************************************)
Extracted == pc[1] = "done" /\ frame[1].op = "extract_people_from_data"

\* the person node of the document: its only owner
OwnerNode == DictGet(frame[1].rp, "owners").items[1]

\* the numbers the entries of a list carry under a recognized field name
NumbersIn(entries) ==
    { FirstTruthy(entries[i], PhonesKeys) : i \in DOMAIN entries } \ {""}

\* C30: every number an entry of the person's alternate_phones list carries
\* under phone_number, phoneNumber or phone is among the phones
\* extract_people_from_data gives that person, as the numbers of the phones
\* list are.
C30_AlternatePhonesExtracted ==
    Extracted =>
        /\ Len(frame[1].results) = 1
        /\ NumbersIn(ListUnder(OwnerNode, "phones"))
                \subseteq Range(frame[1].results[1].phones)
        /\ NumbersIn(ListUnder(OwnerNode, "alternate_phones"))
                \subseteq Range(frame[1].results[1].phones)

-----------------------------------------------------------------------------
(***************************************************************************)
(* Claims about the AI assistant (SpecAi).                                 *)
(***************************************************************************)
\* the assistant was constructed without an API key
NoApiKey == net.ai_assistant.present /\ ~Truthy(net.ai_assistant.api_key)

-----------------------------------------------------------------------------
(***************************************************************************)
(* Claims about the manual lookups (SpecManual).                           *)
(***************************************************************************)
\* no worker is running and no callback is waiting
Quiet == Idle = Threads /\ gui.after = <<>>

ManualCalls(op) == { i \in DOMAIN hist : hist[i].op = op }

\* C25: after manual_address_lookup has completed for a contact whose
\* address response holds named current residents, the displayed results
\* hold a LeadResult for each of those residents.
C25_ManualAddressShowsResidents ==
    Quiet =>
        \A i \in ManualCalls("manual_address_lookup") :
            \A resident \in NamedResidents(Document(hist[i].ra)) :
                \E k \in DOMAIN gui.current_results :
                    gui.current_results[k].new_name = Text(DictGet(resident, "name"))

\* C26: after one manual phone lookup and one manual address lookup of the
\* contact have both completed, each with an answer of its service, the
\* cache entry of the phone holds the phone document of the former and the
\* address document of the latter, however their workers were interleaved.
C26_ManualLookupsKeepEachOther ==
    (/\ Quiet
     /\ Len(hist) = 2
     /\ ManualCalls("manual_phone_lookup") # {}
     /\ ManualCalls("manual_address_lookup") # {}) =>
        \A p \in ManualCalls("manual_phone_lookup"),
           a \in ManualCalls("manual_address_lookup") :
            (Truthy(hist[p].rp) /\ Truthy(Document(hist[a].ra))) =>
                /\ normalize_phone(hist[p].phone) \in DOMAIN cache_data.lookups
                /\ LET entry == cache_data.lookups[normalize_phone(hist[p].phone)]
                   IN  /\ entry.reverse_phone = hist[p].rp
                       /\ Document(entry.reverse_address) = Document(hist[a].ra)

-----------------------------------------------------------------------------
(***************************************************************************)
(* Claims about the person extractor on nested documents (SpecNested).     *)
(***************************************************************************)
\* the records of the map nodes of a document that carry a usable name, at
\* any depth below maps and lists, parents before children, in the order of
\* the document
RECURSIVE NamedNodes(_)
RECURSIVE NamedNodesOf(_)
NamedNodesOf(items) ==
    IF items = <<>> THEN <<>>
    ELSE NamedNodes(Head(items)) \o NamedNodesOf(Tail(items))
NamedNodes(n) ==
    IF IsDict(n) THEN PersonAt(n) \o NamedNodesOf(n.items)
    ELSE IF IsList(n) THEN NamedNodesOf(n.items)
         ELSE <<>>

\* C31: extract_people_from_data emits exactly one record for every map
\* node that carries a usable name, at any depth, also below a person node
\* and in lists nested in lists, depth first, and two nodes of the same name
\* give two records.
C31_OneRecordPerNamedNode ==
    Extracted => frame[1].results = NamedNodes(frame[1].rp)

-----------------------------------------------------------------------------
(***************************************************************************)
(* Claims about update_ai_analysis and the statistics (SpecOps,            *)
(* SpecCache).                                                             *)
(***************************************************************************)
\* the entries other than that of key are what they were before call c
OthersUnchanged(c, key) ==
    /\ DOMAIN cache_data.lookups = DOMAIN c.pre.lookups
    /\ \A k \in DOMAIN cache_data.lookups \ {key} :
            cache_data.lookups[k] = c.pre.lookups[k]

\* C32: update_ai_analysis on a phone without a cache entry returns False
\* and changes neither the cache nor the file; on a phone with an entry it
\* sets that entry's analysis and timestamp and leaves its two documents and
\* every other entry as they were, and when save_cache reports success the
\* file holds the document.
C32_UpdateTouchesOnlyAnalysis ==
    Returned("update_ai_analysis") =>
        LET c == Last(hist)
            key == normalize_phone(c.phone)
        IN  IF key \notin DOMAIN c.pre.lookups
            THEN /\ c.ret = Bool(FALSE)
                 /\ cache_data.lookups = c.pre.lookups
                 /\ CanonFile(fs) = c.pre.file
            ELSE /\ OthersUnchanged(c, key)
                 /\ cache_data.lookups[key].reverse_phone = c.pre.lookups[key].reverse_phone
                 /\ cache_data.lookups[key].reverse_address
                        = c.pre.lookups[key].reverse_address
                 /\ cache_data.lookups[key].ai_analysis = c.ai
                 /\ cache_data.lookups[key].timestamp = clock
                 /\ c.ret = Bool(TRUE)
                        => CanonFile(fs) = [exists |-> TRUE, complete |-> TRUE,
                                            data |-> JsonOfData(cache_data)]

\* an update of the analysis of one of two entries that was saved
C32_Witness ==
    /\ Returned("update_ai_analysis")
    /\ Last(hist).ret = Bool(TRUE)
    /\ Cardinality(DOMAIN cache_data.lookups) >= 2
    /\ normalize_phone(Last(hist).phone) \in DOMAIN Last(hist).pre.lookups
    /\ Last(hist).pre.lookups[normalize_phone(Last(hist).phone)].ai_analysis # Last(hist).ai

\* the step is a get_cached_lookup call
IsGetCachedLookup ==
    /\ clock' = clock + 1
    /\ cache_data' = cache_data
    /\ frame' = frame
    /\ pc'[1] = "done"
    /\ Last(hist').op = "get_cached_lookup"

\* api_calls_saved counts two saved requests for every hit
SavedTwicePerHit == stats.api_calls_saved = 2 * stats.cache_hits

\* C33: every get_cached_lookup call adds one to exactly one of cache_hits
\* and cache_misses, a call whose phone normalizes to empty counting as a
\* miss, and api_calls_saved is always twice cache_hits.
C33_EveryCallCounted ==
    /\ []SavedTwicePerHit
    /\ [][IsGetCachedLookup =>
            \/ /\ stats'.cache_hits = stats.cache_hits + 1
               /\ stats'.cache_misses = stats.cache_misses
            \/ /\ stats'.cache_hits = stats.cache_hits
               /\ stats'.cache_misses = stats.cache_misses + 1]_vars

\* C34: the cache file existed before save_cache was called, and at every
\* step of save_cache, a crash at any step included, a file exists under the
\* canonical name and holds a complete document, the previous or the new one.
C34_CanonAlwaysThere ==
    CanonFile(fs).exists /\ CanonFile(fs).complete


\* ---------------------------------------------------------------------
\* address_lookup's second attempt (SpecAi)
\* ---------------------------------------------------------------------

\* C36: every address_lookup call returns, having called itself at most
\* once and having made at most four requests, whatever the number of
\* corrections recorded for the address was when it was called.
C36_ReentersAtMostOnce ==
    \A i \in 1..Len(hist) :
        hist[i].op = "address_lookup" =>
            /\ hist[i].count <= 1
            /\ hist[i].requests <= 4
            /\ hist[i].ret.t = "tuple"

\* a call that called itself once, followed by a call for the same address
\* that found the two corrections recorded and stopped after its request
C36_Witness ==
    /\ Len(hist) = 2
    /\ hist[1].op = "address_lookup" /\ hist[1].count = 1
    /\ hist[2].op = "address_lookup" /\ hist[2].street = hist[1].street
    /\ hist[2].enable_ai /\ hist[2].requests = 1 /\ hist[2].count = 0
    /\ net.ai_correction_attempts[hist[1].street] = MaxAttempts


\* ---------------------------------------------------------------------
\* the correction counter under concurrent calls (SpecAiConc)
\* ---------------------------------------------------------------------

\* C35: for every address key, ai_correction_attempts[key] never exceeds 2
\* in any reachable state, also when address_lookup runs for the same
\* address on two worker threads at once.
C35_AttemptsAtMostTwo ==
    \A key \in DOMAIN net.ai_correction_attempts :
        net.ai_correction_attempts[key] <= 2


\* ---------------------------------------------------------------------
\* stopping a bulk run (SpecBulkRun)
\* ---------------------------------------------------------------------

\* C37: after stop_processing is pressed while the worker is inside a row,
\* that row completes and no later row is processed: the progress stays at
\* the row shown at the press, and at most that row's phone request is
\* made after the press.
C37_StopEndsRun ==
    (gui.stopped /\ gui.stop_in_row) =>
        /\ gui.progress = gui.stop_progress
        /\ Len(net.phone_calls) <= gui.stop_calls + 1


\* ---------------------------------------------------------------------
\* store_lookup over an entry that holds an analysis (SpecOps)
\* ---------------------------------------------------------------------

\* the last call returned is a store_lookup without analysis that stored
\* its documents under a key whose entry held an analysis
StoredOverAnalysis(put) ==
    /\ put.op = "store_lookup"
    /\ ~Truthy(put.ai)
    /\ put.ret \in {Bool(TRUE), Bool(FALSE)}
    /\ StoreKey(put.phone) # <<>>
    /\ ~NothingToCache(put.rp, put.ra)
    /\ StoreKey(put.phone) \in DOMAIN put.pre.lookups
    /\ put.pre.lookups[StoreKey(put.phone)].has_ai

\* C38: store_lookup replaces the whole entry: called without an analysis
\* on a phone whose entry holds one, it leaves an entry made of the two
\* documents given and no analysis, and a get_cached_lookup that follows
\* returns the two documents and an empty analysis.
C38_StoreDiscardsAnalysis ==
    /\ (Returned("store_lookup") /\ StoredOverAnalysis(Last(hist))) =>
            LET put == Last(hist)
                entry == cache_data.lookups[StoreKey(put.phone)]
            IN  /\ entry.reverse_phone = put.rp
                /\ entry.reverse_address = put.ra
                /\ ~entry.has_ai
                /\ entry.ai_analysis = PyNone
    /\ (Returned("get_cached_lookup") /\ Len(hist) >= 2
            /\ StoredOverAnalysis(hist[Len(hist) - 1])
            /\ normalize_phone(Last(hist).phone) = StoreKey(hist[Len(hist) - 1].phone)) =>
            Last(hist).ret = Tuple(<<hist[Len(hist) - 1].rp, hist[Len(hist) - 1].ra,
                                     EmptyDict>>)

\* a get_cached_lookup right after such a store_lookup
C38_Witness ==
    /\ Returned("get_cached_lookup") /\ Len(hist) >= 2
    /\ StoredOverAnalysis(hist[Len(hist) - 1])
    /\ normalize_phone(Last(hist).phone) = StoreKey(hist[Len(hist) - 1].phone)
    /\ Last(hist).ret.t = "tuple"


\* ---------------------------------------------------------------------
\* the analysis shown and the contact shown (SpecDialerAi)
\* ---------------------------------------------------------------------

\* C39: ai_results is only ever an analysis computed for the contact that
\* is displayed; a background analysis, a preload or a lookup worker that
\* finishes after the user moved to another contact does not change it.
C39_AnalysisOfDisplayedContact ==
    gui.ai_results # PyNone => gui.ai_results = AnalysisFor(CurrentPerson)

====
